---- MODULE Spec2Model ----
(***************************************************************************)
(* The intake wizard of src/app/page.tsx (IntakeWizard) as a state machine: *)
(* the React state of the component, the user's actions on the rendered     *)
(* screen, the four useEffect triggers and the responses of the requests    *)
(* they and handleNext issue.  A handler and the effects that run on the    *)
(* render it causes form one step.                                          *)
(***************************************************************************)
EXTENDS Integers, Sequences, FiniteSets, TLC

\* ---------------------------------------------------------------- bounds
\* number of times the user resets the wizard in one behaviour
MaxResets == 1
\* largest magnitude of a risk delta fed to the risk model on its own
MaxDelta == 110

\* ------------------------------------------------------ program constants
STEP_OPENING == 0
STEP_FIRST_SECTION == 1
STEP_LAST_SECTION == 2
STEP_SUMMARY == 3
STEP_OFFER_VISUAL == 4
STEP_VISUAL_CONCEPT == 5
STEP_FINAL == 6

SECTIONS == <<"Objectives and Outcomes", "Constraints and Considerations">>

\* the value of a useState<... | null> that holds nothing
NULL == "null"

\* the flags the RiskFlag type names
RiskFlags == {"Solution Bias", "Missing Metrics", "Strategic Misalignment", "Dependency Risk"}

\* ------------------------------------------------------------------ texts
\* a text is a sequence of characters; " " stands for white space
\* what the user types: nothing, white space only, a padded word
Texts == {<<>>, <<" ">>, <<" ", "a">>}

RECURSIVE trimStart(_)
trimStart(t) == IF t # <<>> /\ Head(t) = " " THEN trimStart(Tail(t)) ELSE t

RECURSIVE trimEnd(_)
trimEnd(t) == IF t # <<>> /\ t[Len(t)] = " " THEN trimEnd(SubSeq(t, 1, Len(t) - 1)) ELSE t

\* String.prototype.trim
trim(t) == trimEnd(trimStart(t))

\* ------------------------------------------------------------- risk model
Min(a, b) == IF a < b THEN a ELSE b

Max(a, b) == IF a > b THEN a ELSE b

applyDelta_NoFloor(prev, delta) == Min(100, prev + delta)

\* the updater handed to setCumulativeRisk
applyDelta(prev, delta) == Min(100, Max(0, prev + delta))

includes(list, f) == \E i \in 1..Len(list) : list[i] = f

RECURSIVE mergeFlags_Front(_, _)
mergeFlags_Front(prev, flags) ==
    IF flags = <<>> THEN prev
    ELSE mergeFlags_Front(IF includes(prev, Head(flags)) THEN prev ELSE <<Head(flags)>> \o prev,
                          Tail(flags))

\* the updater handed to setAllFlags: push every flag not yet in the list
RECURSIVE mergeFlags(_, _)
mergeFlags(prev, flags) ==
    IF flags = <<>> THEN prev
    ELSE mergeFlags(IF includes(prev, Head(flags)) THEN prev ELSE Append(prev, Head(flags)),
                    Tail(flags))

getRecommendedAction_Gt(riskScore, flags) ==
    IF includes(flags, "Strategic Misalignment") \/ riskScore > 70
    THEN "Strategic Review Required"
    ELSE IF Len(flags) > 0 \/ riskScore >= 45
         THEN "Clarification Call Recommended"
         ELSE "Backlog Ready"

getRecommendedAction(riskScore, flags) ==
    IF includes(flags, "Strategic Misalignment") \/ riskScore >= 70
    THEN "Strategic Review Required"
    ELSE IF Len(flags) > 0 \/ riskScore >= 45
         THEN "Clarification Call Recommended"
         ELSE "Backlog Ready"

\* ---------------------------------------------------- what the server sends
\* bodies /api/evaluate-section answers with (riskDelta within the route's clamp)
EvalResults ==
    { [riskDelta |-> -10, flags |-> <<"Missing Metrics", "Solution Bias", "Missing Metrics">>],
      [riskDelta |-> 25, flags |-> <<"Solution Bias", "Strategic Misalignment">>] }

\* ways the evaluation fetch fails: abort by the 30 s timer, non-ok status
EvalFailures == {"timeout", "http"}

MSG_OPENING_REQUIRED == "Please share the project name and whether it's a new initiative or part of an existing product."
MSG_SECTION_REQUIRED == "Please provide a response before continuing."
MSG_TIMEOUT == "Request timed out. Please try again."
MSG_EVAL_FAILED == "Evaluation failed"

SummaryValues == {"summary"}
SummaryFailures == {"timeout", "shape"}
MSG_SUMMARY_TIMEOUT == "Request timed out. Try again."
MSG_SUMMARY_SHAPE == "Could not generate summary."

FollowUpValues == {"followUp"}
MSG_FOLLOWUP == "Using default prompts."

ConceptValues == {"concept"}
ConceptFailures == {"timeout", "shape"}
MSG_CONCEPT_SHAPE == "Could not generate visual concept."

MockupValues == {"data:image/png;base64,", "imageUrl"}
MockupErrors == {"Mockup generation failed"}

\* ------------------------------------------------------------------ state
VARIABLES
    currentStep, openingResponse, sectionValues, cumulativeRisk, allFlags, feedbacks,
    loading, error, designRequestSummary, summaryLoading, summaryError,
    wantsVisualConcept, referenceConcept, conceptLoading, conceptError, showUxView,
    followUpForConstraints, followUpLoading, followUpError,
    mockupImage, mockupLoading, mockupError,
    \* requests on the wire, each with what its callbacks closed over;
    \* stale: the wizard was reset after the request was issued
    \* retry: the trigger issued the request on the render that followed the
    \* completion of the previous request of its kind
    evalReq, summaryReq, followUpReq, conceptReq, mockupReq,
    \* how often the wizard was reset
    resets,
    \* how many mockup requests were issued since the last reset
    mockupIssued,
    \* a request to one of the API routes with the response it got
    call,
    \* how the external services behave for the server
    upstream

vars == <<currentStep, openingResponse, sectionValues, cumulativeRisk, allFlags, feedbacks,
          loading, error, designRequestSummary, summaryLoading, summaryError,
          wantsVisualConcept, referenceConcept, conceptLoading, conceptError, showUxView,
          followUpForConstraints, followUpLoading, followUpError,
          mockupImage, mockupLoading, mockupError,
          evalReq, summaryReq, followUpReq, conceptReq, mockupReq, resets, mockupIssued,
          call, upstream>>

\* the wizard's own state
wizardVars == <<currentStep, openingResponse, sectionValues, cumulativeRisk, allFlags, feedbacks,
                loading, error, designRequestSummary, summaryLoading, summaryError,
                wantsVisualConcept, referenceConcept, conceptLoading, conceptError, showUxView,
                followUpForConstraints, followUpLoading, followUpError,
                mockupImage, mockupLoading, mockupError,
                evalReq, summaryReq, followUpReq, conceptReq, mockupReq, resets, mockupIssued>>

\* the variables only handlers write
handlerVars == <<currentStep, openingResponse, sectionValues, cumulativeRisk, allFlags, feedbacks,
                 loading, error, designRequestSummary, wantsVisualConcept, referenceConcept,
                 showUxView, followUpForConstraints, mockupImage, evalReq, resets, call, upstream>>

InitWizard ==
    /\ currentStep = 0
    /\ openingResponse = <<>>
    /\ sectionValues = [s \in {SECTIONS[1], SECTIONS[2]} |-> <<>>]
    /\ cumulativeRisk = 0
    /\ allFlags = <<>>
    /\ feedbacks = [k \in {} |-> [riskDelta |-> 0, flags |-> <<>>]]
    /\ loading = FALSE
    /\ error = NULL
    /\ designRequestSummary = NULL
    /\ summaryLoading = FALSE
    /\ summaryError = NULL
    /\ wantsVisualConcept = NULL
    /\ referenceConcept = NULL
    /\ conceptLoading = FALSE
    /\ conceptError = NULL
    /\ showUxView = FALSE
    /\ followUpForConstraints = NULL
    /\ followUpLoading = FALSE
    /\ followUpError = NULL
    /\ mockupImage = NULL
    /\ mockupLoading = FALSE
    /\ mockupError = NULL
    /\ evalReq = <<>>
    /\ summaryReq = <<>>
    /\ followUpReq = <<>>
    /\ conceptReq = <<>>
    /\ mockupReq = <<>>
    /\ resets = 0
    /\ mockupIssued = 0

\* no request to a route is being followed
Init ==
    /\ InitWizard
    /\ call = NULL
    /\ upstream = NULL

\* ------------------------------------------------------- derived by render
isInSections == currentStep >= STEP_FIRST_SECTION /\ currentStep <= STEP_LAST_SECTION

section == SECTIONS[currentStep - STEP_FIRST_SECTION + 1]

hasFeedback(k) == k \in DOMAIN feedbacks

openingFeedback_Stale == FALSE

\* feedbacks[STEP_OPENING] is there
openingFeedback == hasFeedback(STEP_OPENING)

sectionFeedback_Index == hasFeedback(currentStep - STEP_FIRST_SECTION)

\* feedbacks[currentStep] of a section step is there
sectionFeedback == hasFeedback(currentStep)

\* ---------------------------------------------------------------- helpers
Put(f, k, v) == [x \in DOMAIN f \cup {k} |-> IF x = k THEN v ELSE f[x]]

Remove(q, i) == SubSeq(q, 1, i - 1) \o SubSeq(q, i + 1, Len(q))

\* a reset leaves the requests on the wire; it only makes them belong to an earlier run
MarkStale(q) == [i \in 1..Len(q) |-> [q[i] EXCEPT !.stale = TRUE]]

\* ------------------------------------------------ the useEffect triggers
\* Each guard is the negation of the effect's early return.  The effects run
\* on the state a handler leaves behind, so they read the primed variables of
\* the handler and are given what the handler left in the variables they write.

summaryGuard_NoLoading(step, summary, sLoading) ==
    step = STEP_SUMMARY /\ summary = NULL

summaryGuard(step, summary, sLoading) ==
    step = STEP_SUMMARY /\ summary = NULL /\ ~sLoading

summaryEffect_Regenerate(sLoading, sError, sReq) ==
    IF currentStep' = STEP_SUMMARY /\ ~sLoading
    THEN /\ summaryError' = NULL
         /\ summaryLoading' = TRUE
         /\ summaryReq' = Append(sReq, [stale |-> FALSE, retry |-> summaryLoading /\ ~sLoading])
    ELSE /\ summaryError' = sError
         /\ summaryLoading' = sLoading
         /\ summaryReq' = sReq

summaryEffect(sLoading, sError, sReq) ==
    IF summaryGuard(currentStep', designRequestSummary', sLoading)
    THEN /\ summaryError' = NULL
         /\ summaryLoading' = TRUE
         /\ summaryReq' = Append(sReq, [stale |-> FALSE, retry |-> summaryLoading /\ ~sLoading])
    ELSE /\ summaryError' = sError
         /\ summaryLoading' = sLoading
         /\ summaryReq' = sReq

followUpGuard(step, opening, objectives, followUp, fLoading) ==
    /\ step = STEP_LAST_SECTION
    /\ ~(trim(opening) = <<>> /\ trim(objectives) = <<>>)
    /\ followUp = NULL
    /\ ~fLoading

followUpEffect(fLoading, fError, fReq) ==
    IF followUpGuard(currentStep', openingResponse', sectionValues'[SECTIONS[1]],
                     followUpForConstraints', fLoading)
    THEN /\ followUpError' = NULL
         /\ followUpLoading' = TRUE
         /\ followUpReq' = Append(fReq, [stale |-> FALSE, retry |-> followUpLoading /\ ~fLoading])
    ELSE /\ followUpError' = fError
         /\ followUpLoading' = fLoading
         /\ followUpReq' = fReq

conceptGuard_Regenerate(step, wants, summary, concept, cLoading) ==
    /\ \/ step = STEP_VISUAL_CONCEPT /\ wants = "true"
       \/ step = STEP_FINAL /\ wants = "false"
    /\ summary # NULL
    /\ ~cLoading

conceptGuard(step, wants, summary, concept, cLoading) ==
    /\ \/ step = STEP_VISUAL_CONCEPT /\ wants = "true"
       \/ step = STEP_FINAL /\ wants = "false"
    /\ summary # NULL
    /\ concept = NULL
    /\ ~cLoading

conceptEffect(cLoading, cError, cReq) ==
    IF conceptGuard(currentStep', wantsVisualConcept', designRequestSummary',
                    referenceConcept', cLoading)
    THEN /\ conceptError' = NULL
         /\ conceptLoading' = TRUE
         /\ conceptReq' = Append(cReq, [stale |-> FALSE, retry |-> conceptLoading /\ ~cLoading])
    ELSE /\ conceptError' = cError
         /\ conceptLoading' = cLoading
         /\ conceptReq' = cReq

mockupGuard_AnyBranch(step, wants, summary, image, mLoading, mError) ==
    /\ \/ step = STEP_VISUAL_CONCEPT /\ wants = "true"
       \/ step = STEP_FINAL /\ wants = "false"
    /\ summary # NULL
    /\ image = NULL
    /\ ~mLoading
    /\ mError = NULL

mockupGuard(step, wants, summary, image, mLoading, mError) ==
    /\ step = STEP_VISUAL_CONCEPT
    /\ wants = "true"
    /\ summary # NULL
    /\ image = NULL
    /\ ~mLoading
    /\ mError = NULL

mockupEffect_Retry(mLoading, mError, mReq, mIssued) ==
    IF mockupGuard(currentStep', wantsVisualConcept', designRequestSummary',
                   mockupImage', mLoading, NULL)
    THEN /\ mockupError' = NULL
         /\ mockupLoading' = TRUE
         /\ mockupReq' = Append(mReq, [stale |-> FALSE])
         /\ mockupIssued' = mIssued + 1
    ELSE /\ mockupError' = mError
         /\ mockupLoading' = mLoading
         /\ mockupReq' = mReq
         /\ mockupIssued' = mIssued

mockupEffect(mLoading, mError, mReq, mIssued) ==
    IF mockupGuard(currentStep', wantsVisualConcept', designRequestSummary',
                   mockupImage', mLoading, mError)
    THEN /\ mockupError' = NULL
         /\ mockupLoading' = TRUE
         /\ mockupReq' = Append(mReq, [stale |-> FALSE])
         /\ mockupIssued' = mIssued + 1
    ELSE /\ mockupError' = mError
         /\ mockupLoading' = mLoading
         /\ mockupReq' = mReq
         /\ mockupIssued' = mIssued

\* the effects after a handler that wrote none of their variables
runEffects ==
    /\ summaryEffect(summaryLoading, summaryError, summaryReq)
    /\ followUpEffect(followUpLoading, followUpError, followUpReq)
    /\ conceptEffect(conceptLoading, conceptError, conceptReq)
    /\ mockupEffect(mockupLoading, mockupError, mockupReq, mockupIssued)

\* --------------------------------------------------------- user actions
\* onChange of the Opening textarea (shown on step 0, disabled while loading)
setOpeningResponse(t) ==
    /\ currentStep = STEP_OPENING
    /\ ~loading
    /\ t # openingResponse
    /\ openingResponse' = t
    /\ UNCHANGED <<currentStep, sectionValues, cumulativeRisk, allFlags, feedbacks, loading,
                   error, designRequestSummary, wantsVisualConcept, referenceConcept,
                   showUxView, followUpForConstraints, mockupImage, evalReq, resets, call, upstream>>
    /\ runEffects

\* onChange of a section's textarea
setSectionValues(t) ==
    /\ isInSections
    /\ ~loading
    /\ t # sectionValues[section]
    /\ sectionValues' = [sectionValues EXCEPT ![section] = t]
    /\ UNCHANGED <<currentStep, openingResponse, cumulativeRisk, allFlags, feedbacks, loading,
                   error, designRequestSummary, wantsVisualConcept, referenceConcept,
                   showUxView, followUpForConstraints, mockupImage, evalReq, resets, call, upstream>>
    /\ runEffects

\* what handleNext's input is on the current step
currentInput == IF currentStep = STEP_OPENING THEN openingResponse ELSE sectionValues[section]

nextStep_SkipSummary(step) == IF step = STEP_LAST_SECTION THEN STEP_OFFER_VISUAL ELSE step + 1

\* the step handleNext moves to when feedback is present
nextStep(step) == IF step = STEP_LAST_SECTION THEN STEP_SUMMARY ELSE step + 1

\* the Next button of the Opening and section screens is enabled
nextEnabled ==
    /\ currentStep \in STEP_OPENING..STEP_LAST_SECTION
    /\ ~loading
    /\ isInSections => ~(trim(currentInput) = <<>> /\ ~sectionFeedback)

handleNext_NoTrim ==
    /\ nextEnabled
    /\ IF (IF currentStep = STEP_OPENING THEN openingFeedback ELSE sectionFeedback)
       THEN /\ currentStep' = nextStep(currentStep)
            /\ UNCHANGED <<error, loading, evalReq>>
       ELSE IF currentInput = <<>>
       THEN /\ error' = (IF currentStep = STEP_OPENING THEN MSG_OPENING_REQUIRED
                         ELSE MSG_SECTION_REQUIRED)
            /\ UNCHANGED <<currentStep, loading, evalReq>>
       ELSE /\ error' = NULL
            /\ loading' = TRUE
            /\ evalReq' = Append(evalReq, [step |-> currentStep, input |-> trim(currentInput),
                                           stale |-> FALSE])
            /\ UNCHANGED currentStep
    /\ UNCHANGED <<openingResponse, sectionValues, cumulativeRisk, allFlags, feedbacks,
                   designRequestSummary, wantsVisualConcept, referenceConcept,
                   showUxView, followUpForConstraints, mockupImage, resets, call, upstream>>
    /\ runEffects

\* handleNext up to the fetch
handleNext ==
    /\ nextEnabled
    /\ IF (IF currentStep = STEP_OPENING THEN openingFeedback ELSE sectionFeedback)
       THEN /\ currentStep' = nextStep(currentStep)
            /\ UNCHANGED <<error, loading, evalReq>>
       ELSE IF trim(currentInput) = <<>>
       THEN /\ error' = (IF currentStep = STEP_OPENING THEN MSG_OPENING_REQUIRED
                         ELSE MSG_SECTION_REQUIRED)
            /\ UNCHANGED <<currentStep, loading, evalReq>>
       ELSE /\ error' = NULL
            /\ loading' = TRUE
            /\ evalReq' = Append(evalReq, [step |-> currentStep, input |-> trim(currentInput),
                                           stale |-> FALSE])
            /\ UNCHANGED currentStep
    /\ UNCHANGED <<openingResponse, sectionValues, cumulativeRisk, allFlags, feedbacks,
                   designRequestSummary, wantsVisualConcept, referenceConcept,
                   showUxView, followUpForConstraints, mockupImage, resets, call, upstream>>
    /\ runEffects

evalSuccess_Advance(i, data) ==
    /\ i \in 1..Len(evalReq)
    /\ feedbacks' = Put(feedbacks, evalReq[i].step, data)
    /\ cumulativeRisk' = applyDelta(cumulativeRisk, data.riskDelta)
    /\ allFlags' = mergeFlags(allFlags, data.flags)
    /\ loading' = FALSE
    /\ evalReq' = Remove(evalReq, i)
    /\ currentStep' = nextStep(evalReq[i].step)
    /\ UNCHANGED <<openingResponse, sectionValues, error, designRequestSummary,
                   wantsVisualConcept, referenceConcept, showUxView, followUpForConstraints,
                   mockupImage, resets, call, upstream>>
    /\ runEffects

\* handleNext after the fetch resolved with an ok response
evalSuccess(i, data) ==
    /\ i \in 1..Len(evalReq)
    /\ feedbacks' = Put(feedbacks, evalReq[i].step, data)
    /\ cumulativeRisk' = applyDelta(cumulativeRisk, data.riskDelta)
    /\ allFlags' = mergeFlags(allFlags, data.flags)
    /\ loading' = FALSE
    /\ evalReq' = Remove(evalReq, i)
    /\ UNCHANGED <<currentStep, openingResponse, sectionValues, error, designRequestSummary,
                   wantsVisualConcept, referenceConcept, showUxView, followUpForConstraints,
                   mockupImage, resets, call, upstream>>
    /\ runEffects

evalErrorMessage_Same(kind) == MSG_EVAL_FAILED

evalErrorMessage(kind) ==
    IF kind = "timeout" THEN MSG_TIMEOUT ELSE MSG_EVAL_FAILED

evalFailure_Penalty(i, kind) ==
    /\ i \in 1..Len(evalReq)
    /\ error' = evalErrorMessage(kind)
    /\ loading' = FALSE
    /\ evalReq' = Remove(evalReq, i)
    /\ cumulativeRisk' = applyDelta(cumulativeRisk, 5)
    /\ UNCHANGED <<currentStep, openingResponse, sectionValues, allFlags,
                   feedbacks, designRequestSummary, wantsVisualConcept, referenceConcept,
                   showUxView, followUpForConstraints, mockupImage, resets, call, upstream>>
    /\ runEffects

\* handleNext's catch and finally
evalFailure(i, kind) ==
    /\ i \in 1..Len(evalReq)
    /\ error' = evalErrorMessage(kind)
    /\ loading' = FALSE
    /\ evalReq' = Remove(evalReq, i)
    /\ UNCHANGED <<currentStep, openingResponse, sectionValues, cumulativeRisk, allFlags,
                   feedbacks, designRequestSummary, wantsVisualConcept, referenceConcept,
                   showUxView, followUpForConstraints, mockupImage, resets, call, upstream>>
    /\ runEffects

resetWizard_KeepFlags ==
    /\ currentStep # STEP_OFFER_VISUAL
    /\ resets < MaxResets
    /\ resets' = resets + 1
    /\ UNCHANGED <<call, upstream>>
    /\ currentStep' = 0
    /\ openingResponse' = <<>>
    /\ sectionValues' = [s \in {SECTIONS[1], SECTIONS[2]} |-> <<>>]
    /\ cumulativeRisk' = 0
    /\ allFlags' = allFlags
    /\ feedbacks' = [k \in {} |-> [riskDelta |-> 0, flags |-> <<>>]]
    /\ error' = NULL
    /\ designRequestSummary' = NULL
    /\ wantsVisualConcept' = NULL
    /\ referenceConcept' = NULL
    /\ showUxView' = FALSE
    /\ followUpForConstraints' = NULL
    /\ mockupImage' = NULL
    /\ loading' = loading
    /\ evalReq' = MarkStale(evalReq)
    /\ summaryEffect(summaryLoading, NULL, MarkStale(summaryReq))
    /\ followUpEffect(followUpLoading, NULL, MarkStale(followUpReq))
    /\ conceptEffect(conceptLoading, NULL, MarkStale(conceptReq))
    /\ mockupEffect(mockupLoading, NULL, MarkStale(mockupReq), 0)

\* the Reset / Start over button (every screen but the visual-concept offer)
resetWizard ==
    /\ currentStep # STEP_OFFER_VISUAL
    /\ resets < MaxResets
    /\ resets' = resets + 1
    /\ UNCHANGED <<call, upstream>>
    /\ currentStep' = 0
    /\ openingResponse' = <<>>
    /\ sectionValues' = [s \in {SECTIONS[1], SECTIONS[2]} |-> <<>>]
    /\ cumulativeRisk' = 0
    /\ allFlags' = <<>>
    /\ feedbacks' = [k \in {} |-> [riskDelta |-> 0, flags |-> <<>>]]
    /\ error' = NULL
    /\ designRequestSummary' = NULL
    /\ wantsVisualConcept' = NULL
    /\ referenceConcept' = NULL
    /\ showUxView' = FALSE
    /\ followUpForConstraints' = NULL
    /\ mockupImage' = NULL
    /\ loading' = loading
    /\ evalReq' = MarkStale(evalReq)
    /\ summaryEffect(summaryLoading, NULL, MarkStale(summaryReq))
    /\ followUpEffect(followUpLoading, NULL, MarkStale(followUpReq))
    /\ conceptEffect(conceptLoading, NULL, MarkStale(conceptReq))
    /\ mockupEffect(mockupLoading, NULL, MarkStale(mockupReq), 0)

\* ------------------------------------------------- responses to the effects
summaryErrorMessage(kind) ==
    IF kind = "timeout" THEN MSG_SUMMARY_TIMEOUT ELSE MSG_SUMMARY_SHAPE

\* .then with a body that has a string problem, then .finally
summarySuccess(i, data) ==
    /\ i \in 1..Len(summaryReq)
    /\ designRequestSummary' = data
    /\ UNCHANGED <<currentStep, openingResponse, sectionValues, cumulativeRisk, allFlags,
                   feedbacks, loading, error, wantsVisualConcept, referenceConcept,
                   showUxView, followUpForConstraints, mockupImage, evalReq, resets, call, upstream>>
    /\ summaryEffect(FALSE, summaryError, Remove(summaryReq, i))
    /\ followUpEffect(followUpLoading, followUpError, followUpReq)
    /\ conceptEffect(conceptLoading, conceptError, conceptReq)
    /\ mockupEffect(mockupLoading, mockupError, mockupReq, mockupIssued)

\* .then with any other body, or .catch, then .finally
summaryFailure(i, kind) ==
    /\ i \in 1..Len(summaryReq)
    /\ UNCHANGED handlerVars
    /\ summaryEffect(FALSE, summaryErrorMessage(kind), Remove(summaryReq, i))
    /\ followUpEffect(followUpLoading, followUpError, followUpReq)
    /\ conceptEffect(conceptLoading, conceptError, conceptReq)
    /\ mockupEffect(mockupLoading, mockupError, mockupReq, mockupIssued)

followUpSuccess(i, data) ==
    /\ i \in 1..Len(followUpReq)
    /\ followUpForConstraints' = data
    /\ UNCHANGED <<currentStep, openingResponse, sectionValues, cumulativeRisk, allFlags,
                   feedbacks, loading, error, designRequestSummary, wantsVisualConcept,
                   referenceConcept, showUxView, mockupImage, evalReq, resets, call, upstream>>
    /\ summaryEffect(summaryLoading, summaryError, summaryReq)
    /\ followUpEffect(FALSE, followUpError, Remove(followUpReq, i))
    /\ conceptEffect(conceptLoading, conceptError, conceptReq)
    /\ mockupEffect(mockupLoading, mockupError, mockupReq, mockupIssued)

\* a non-ok status (502 of the route), an abort by the 25 s timer or a rejected fetch
followUpFailure(i) ==
    /\ i \in 1..Len(followUpReq)
    /\ UNCHANGED handlerVars
    /\ summaryEffect(summaryLoading, summaryError, summaryReq)
    /\ followUpEffect(FALSE, MSG_FOLLOWUP, Remove(followUpReq, i))
    /\ conceptEffect(conceptLoading, conceptError, conceptReq)
    /\ mockupEffect(mockupLoading, mockupError, mockupReq, mockupIssued)

conceptErrorMessage(kind) ==
    IF kind = "timeout" THEN MSG_SUMMARY_TIMEOUT ELSE MSG_CONCEPT_SHAPE

conceptSuccess(i, data) ==
    /\ i \in 1..Len(conceptReq)
    /\ referenceConcept' = data
    /\ UNCHANGED <<currentStep, openingResponse, sectionValues, cumulativeRisk, allFlags,
                   feedbacks, loading, error, designRequestSummary, wantsVisualConcept,
                   showUxView, followUpForConstraints, mockupImage, evalReq, resets, call, upstream>>
    /\ summaryEffect(summaryLoading, summaryError, summaryReq)
    /\ followUpEffect(followUpLoading, followUpError, followUpReq)
    /\ conceptEffect(FALSE, conceptError, Remove(conceptReq, i))
    /\ mockupEffect(mockupLoading, mockupError, mockupReq, mockupIssued)

conceptFailure_KeepLoading(i, kind) ==
    /\ i \in 1..Len(conceptReq)
    /\ UNCHANGED handlerVars
    /\ summaryEffect(summaryLoading, summaryError, summaryReq)
    /\ followUpEffect(followUpLoading, followUpError, followUpReq)
    /\ conceptEffect(conceptLoading, conceptErrorMessage(kind), Remove(conceptReq, i))
    /\ mockupEffect(mockupLoading, mockupError, mockupReq, mockupIssued)

conceptFailure(i, kind) ==
    /\ i \in 1..Len(conceptReq)
    /\ UNCHANGED handlerVars
    /\ summaryEffect(summaryLoading, summaryError, summaryReq)
    /\ followUpEffect(followUpLoading, followUpError, followUpReq)
    /\ conceptEffect(FALSE, conceptErrorMessage(kind), Remove(conceptReq, i))
    /\ mockupEffect(mockupLoading, mockupError, mockupReq, mockupIssued)

\* a body with image or imageUrl
mockupSuccess(i, data) ==
    /\ i \in 1..Len(mockupReq)
    /\ mockupImage' = data
    /\ UNCHANGED <<currentStep, openingResponse, sectionValues, cumulativeRisk, allFlags,
                   feedbacks, loading, error, designRequestSummary, wantsVisualConcept,
                   referenceConcept, showUxView, followUpForConstraints, evalReq, resets, call, upstream>>
    /\ summaryEffect(summaryLoading, summaryError, summaryReq)
    /\ followUpEffect(followUpLoading, followUpError, followUpReq)
    /\ conceptEffect(conceptLoading, conceptError, conceptReq)
    /\ mockupEffect(FALSE, mockupError, Remove(mockupReq, i), mockupIssued)

\* a body with error, or .catch
mockupFailure(i, msg) ==
    /\ i \in 1..Len(mockupReq)
    /\ UNCHANGED handlerVars
    /\ summaryEffect(summaryLoading, summaryError, summaryReq)
    /\ followUpEffect(followUpLoading, followUpError, followUpReq)
    /\ conceptEffect(conceptLoading, conceptError, conceptReq)
    /\ mockupEffect(FALSE, msg, Remove(mockupReq, i), mockupIssued)

\* ------------------------------------------------- the later screens' buttons
summaryNext_NoSummary ==
    /\ currentStep = STEP_SUMMARY
    /\ currentStep' = STEP_OFFER_VISUAL
    /\ UNCHANGED <<openingResponse, sectionValues, cumulativeRisk, allFlags, feedbacks, loading,
                   error, designRequestSummary, wantsVisualConcept, referenceConcept,
                   showUxView, followUpForConstraints, mockupImage, evalReq, resets, call, upstream>>
    /\ runEffects

\* Next of the summary screen, rendered once the summary is there
summaryNext ==
    /\ currentStep = STEP_SUMMARY
    /\ designRequestSummary # NULL
    /\ ~summaryLoading
    /\ currentStep' = STEP_OFFER_VISUAL
    /\ UNCHANGED <<openingResponse, sectionValues, cumulativeRisk, allFlags, feedbacks, loading,
                   error, designRequestSummary, wantsVisualConcept, referenceConcept,
                   showUxView, followUpForConstraints, mockupImage, evalReq, resets, call, upstream>>
    /\ runEffects

handleOfferVisual_ViaConcept(yes) ==
    /\ currentStep = STEP_OFFER_VISUAL
    /\ wantsVisualConcept' = (IF yes THEN "true" ELSE "false")
    /\ currentStep' = STEP_VISUAL_CONCEPT
    /\ UNCHANGED <<openingResponse, sectionValues, cumulativeRisk, allFlags, feedbacks, loading,
                   error, designRequestSummary, referenceConcept,
                   showUxView, followUpForConstraints, mockupImage, evalReq, resets, call, upstream>>
    /\ runEffects

\* the two buttons of the visual-concept offer
handleOfferVisual(yes) ==
    /\ currentStep = STEP_OFFER_VISUAL
    /\ wantsVisualConcept' = (IF yes THEN "true" ELSE "false")
    /\ currentStep' = (IF yes THEN STEP_VISUAL_CONCEPT ELSE STEP_FINAL)
    /\ UNCHANGED <<openingResponse, sectionValues, cumulativeRisk, allFlags, feedbacks, loading,
                   error, designRequestSummary, referenceConcept,
                   showUxView, followUpForConstraints, mockupImage, evalReq, resets, call, upstream>>
    /\ runEffects

\* "Continue to final submission", rendered once the reference concept is there
conceptNext ==
    /\ currentStep = STEP_VISUAL_CONCEPT
    /\ referenceConcept # NULL
    /\ ~conceptLoading
    /\ currentStep' = STEP_FINAL
    /\ UNCHANGED <<openingResponse, sectionValues, cumulativeRisk, allFlags, feedbacks, loading,
                   error, designRequestSummary, wantsVisualConcept, referenceConcept,
                   showUxView, followUpForConstraints, mockupImage, evalReq, resets, call, upstream>>
    /\ runEffects

toggleUxView_Back ==
    /\ currentStep = STEP_FINAL
    /\ showUxView' = ~showUxView
    /\ currentStep' = STEP_VISUAL_CONCEPT
    /\ UNCHANGED <<openingResponse, sectionValues, cumulativeRisk, allFlags,
                   feedbacks, loading, error, designRequestSummary, wantsVisualConcept,
                   referenceConcept, followUpForConstraints, mockupImage, evalReq, resets, call, upstream>>
    /\ runEffects

\* "Show / Hide UX internal view" of the final screen
toggleUxView ==
    /\ currentStep = STEP_FINAL
    /\ showUxView' = ~showUxView
    /\ UNCHANGED <<currentStep, openingResponse, sectionValues, cumulativeRisk, allFlags,
                   feedbacks, loading, error, designRequestSummary, wantsVisualConcept,
                   referenceConcept, followUpForConstraints, mockupImage, evalReq, resets, call, upstream>>
    /\ runEffects

\* ------------------------------------------------------- the specification
evalResponse ==
    \E i \in 1..Len(evalReq) :
        \/ \E data \in EvalResults : evalSuccess(i, data)
        \/ \E kind \in EvalFailures : evalFailure(i, kind)

summaryResponse ==
    \E i \in 1..Len(summaryReq) :
        \/ \E data \in SummaryValues : summarySuccess(i, data)
        \/ \E kind \in SummaryFailures : summaryFailure(i, kind)

followUpResponse ==
    \E i \in 1..Len(followUpReq) :
        \/ \E data \in FollowUpValues : followUpSuccess(i, data)
        \/ followUpFailure(i)

conceptResponse ==
    \E i \in 1..Len(conceptReq) :
        \/ \E data \in ConceptValues : conceptSuccess(i, data)
        \/ \E kind \in ConceptFailures : conceptFailure(i, kind)

mockupResponse ==
    \E i \in 1..Len(mockupReq) :
        \/ \E data \in MockupValues : mockupSuccess(i, data)
        \/ \E msg \in MockupErrors : mockupFailure(i, msg)

Next ==
    \/ \E t \in Texts : setOpeningResponse(t)
    \/ \E t \in Texts : setSectionValues(t)
    \/ handleNext
    \/ evalResponse
    \/ resetWizard
    \/ summaryResponse
    \/ followUpResponse
    \/ conceptResponse
    \/ mockupResponse
    \/ summaryNext
    \/ \E yes \in BOOLEAN : handleOfferVisual(yes)
    \/ conceptNext
    \/ toggleUxView

Spec == Init /\ [][Next]_vars

\* ------------------------------------------ the risk model taken on its own
\* flag lists of one evaluation result
MaxFlags == 2

FlagLists == UNION {[1..n -> RiskFlags] : n \in 0..MaxFlags}

riskFrame ==
    UNCHANGED <<currentStep, openingResponse, sectionValues, feedbacks, loading, error,
                designRequestSummary, summaryLoading, summaryError, wantsVisualConcept,
                referenceConcept, conceptLoading, conceptError, showUxView,
                followUpForConstraints, followUpLoading, followUpError, mockupImage,
                mockupLoading, mockupError, evalReq, summaryReq, followUpReq, conceptReq,
                mockupReq, resets, mockupIssued, call, upstream>>

\* setCumulativeRisk with the updater, for a delta of any size
riskApply(delta) ==
    /\ cumulativeRisk' = applyDelta(cumulativeRisk, delta)
    /\ UNCHANGED allFlags
    /\ riskFrame

\* setAllFlags with the updater
riskMerge(flags) ==
    /\ allFlags' = mergeFlags(allFlags, flags)
    /\ UNCHANGED cumulativeRisk
    /\ riskFrame

NextRisk ==
    \/ \E delta \in (0 - MaxDelta)..MaxDelta : riskApply(delta)
    \/ \E flags \in FlagLists : riskMerge(flags)

SpecRisk == Init /\ [][NextRisk]_vars

\* Array.from(new Set(list)): the first occurrence of every element, in order
uniq(list) == mergeFlags(<<>>, list)

\* the IntakeSummary's flags and the action shown in the UX internal view
summaryFlags == uniq(allFlags)

recommendedAction == getRecommendedAction(cumulativeRisk, summaryFlags)

\* ======================================================== the API routes
\* ------------------------------------------------------------- strings
\* Texts the routes receive are strings.  A TLA+ string holds no character
\* outside ASCII, so "-" stands for the em dash of the source.
DASH == "-"

WhiteSpace == {" ", "\n", "\r", "\t"}

RECURSIVE strTrimStart(_)
strTrimStart(s) == IF s # "" /\ Head(s) \in WhiteSpace THEN strTrimStart(Tail(s)) ELSE s

RECURSIVE strTrimEnd(_)
strTrimEnd(s) ==
    IF s # "" /\ SubSeq(s, Len(s), Len(s)) \in WhiteSpace
    THEN strTrimEnd(SubSeq(s, 1, Len(s) - 1))
    ELSE s

\* String.prototype.trim on a string
strTrim(s) == strTrimEnd(strTrimStart(s))

\* String.prototype.slice(0, n)
slice(s, n) == SubSeq(s, 1, Min(n, Len(s)))

\* String.prototype.toLowerCase, on the letters A to Z
RECURSIVE toLowerCase(_)
toLowerCase(s) ==
    LET UpperCase == "ABCDEFGHIJKLMNOPQRSTUVWXYZ"
        LowerCase == "abcdefghijklmnopqrstuvwxyz"
        lowerChar(c) ==
            IF \E i \in 1..Len(UpperCase) : SubSeq(UpperCase, i, i) = c
            THEN LET j == CHOOSE i \in 1..Len(UpperCase) : SubSeq(UpperCase, i, i) = c
                 IN  SubSeq(LowerCase, j, j)
            ELSE c
    IN  IF s = "" THEN "" ELSE lowerChar(Head(s)) \o toLowerCase(Tail(s))

\* String.prototype.includes
strIncludes(s, w) == \E i \in 1..(Len(s) - Len(w) + 1) : SubSeq(s, i, i + Len(w) - 1) = w

\* /w1|w2|.../i.test(text)
testAny(words, text) == \E w \in words : strIncludes(toLowerCase(text), w)

\* ------------------------------------------------------------ JSON values
\* a JSON value with its typeof; Undefined is a property that is not there
Str(s) == [type |-> "string", value |-> s]

Num(n) == [type |-> "number", value |-> n]

JsonNull == [type |-> "null"]

Undefined == [type |-> "undefined"]

\* an object with the properties of the record fields
Obj(fields) == [type |-> "object", fields |-> fields]

\* a request body req.json() cannot parse
Unparsable == [type |-> "unparsable"]

\* obj.name for an object, a string or a number
prop(v, name) ==
    IF v.type = "object" /\ name \in DOMAIN v.fields THEN v.fields[name] ELSE Undefined

\* reading a property of null or undefined throws a TypeError
propThrows(v) == v.type \in {"null", "undefined"}

\* !v
falsy(v) ==
    \/ v.type \in {"undefined", "null"}
    \/ v.type = "string" /\ v.value = ""
    \/ v.type = "number" /\ v.value = 0

\* String(v) for the values the bodies hold
String(v) ==
    CASE v.type = "string" -> v.value
      [] v.type = "number" -> ToString(v.value)
      [] v.type = "null" -> "null"
      [] v.type = "undefined" -> "undefined"
      [] OTHER -> "[object Object]"

\* an array with the items of the sequence
Arr(items) == [type |-> "array", items |-> items]

\* array.filter(x => typeof x === "string"), as the sequence of the strings
RECURSIVE filterStrings(_)
filterStrings(items) ==
    IF items = <<>> THEN <<>>
    ELSE (IF Head(items).type = "string" THEN <<Head(items).value>> ELSE <<>>)
             \o filterStrings(Tail(items))

\* ------------------------------------------------- the external service
\* What the chat-completions call does, as the route sees it:
\*   noKey      OPENAI_API_KEY is not set
\*   hang       no answer before the route's timer aborts the fetch
\*   reject     fetch rejects with an Error carrying message
\*   status     a non-ok status, message being error.message of the body
\*              (Undefined when the body has none)
\*   transport  an ok status whose body res.json() cannot parse; message is
\*              the SyntaxError's, which quotes the start of the body
\*   empty      no content in choices[0].message
\*   notJson    content that JSON.parse rejects
\*   reply      content that parses to the JSON value parsed
MSG_BAD_HEADER == "Unexpected token '<', \"<html>\r\n<h\"... is not valid JSON"

FailureModes ==
    { [kind |-> "noKey"], [kind |-> "hang"],
      [kind |-> "reject", message |-> "fetch failed"],
      [kind |-> "reject", message |-> "boom"],
      [kind |-> "status", status |-> 401, message |-> Str("Incorrect API key provided")],
      [kind |-> "status", status |-> 429, message |-> Undefined],
      [kind |-> "status", status |-> 503, message |-> Undefined],
      [kind |-> "status", status |-> 400, message |-> Str("Billing\nhard limit reached")],
      [kind |-> "status", status |-> 404, message |-> Undefined],
      [kind |-> "transport", message |-> MSG_BAD_HEADER],
      [kind |-> "empty"], [kind |-> "notJson"],
      [kind |-> "reply", parsed |-> JsonNull] }

\* ------------------------------------------------------ evaluate-section
\* the message for a non-ok status
evaluateStatusMessage(up) ==
    IF up.status = 401 THEN "Invalid OpenAI API key (401). Check OPENAI_API_KEY in .env.local."
    ELSE IF up.status = 429 THEN "OpenAI rate limit exceeded (429). Try again in a moment."
    ELSE IF up.status >= 500 THEN "OpenAI server error. Try again later."
    ELSE IF up.message.type = "string" /\ slice(up.message.value, 100) # ""
         THEN "OpenAI error: " \o slice(up.message.value, 100)
         ELSE "OpenAI error (" \o ToString(up.status) \o "). Check server logs."

\* the catch of evaluateWithOpenAI for an Error with message msg
evaluateCatch(msg) ==
    IF testAny({"fetch failed", "econnrefused", "enotfound", "etimedout", "econnreset",
                "network", "socket hang up"}, msg)
    THEN [ok |-> FALSE, error |-> "Network error: could not reach OpenAI. Common causes: VPN or firewall blocking api.openai.com, no internet, or corporate proxy. Try a different network (e.g. phone hotspot) or check with your IT team."]
    ELSE [ok |-> FALSE, error |-> "OpenAI request failed: " \o msg]

clampDelta_NoFloor(riskDelta) == Min(25, riskDelta)

\* Math.min(25, Math.max(-10, riskDelta))
clampDelta(riskDelta) == Min(25, Max(-10, riskDelta))

\* the data built from the parsed reply
evaluationData(parsed) ==
    LET fb == prop(parsed, "feedback")
        si == prop(parsed, "suggestedImprovements")
        suggested == IF si.type = "array" THEN filterStrings(si.items) ELSE <<>>
        rd == prop(parsed, "riskDelta")
        rd2 == prop(parsed, "risk_delta")
        riskDelta == IF rd.type = "number" THEN rd.value
                     ELSE IF rd2.type = "number" THEN rd2.value ELSE 10
        fl == prop(parsed, "flags")
    IN  [feedback |-> IF fb.type = "string" THEN fb.value ELSE "Thanks for sharing.",
         suggestedImprovements |->
             IF Len(suggested) > 0 THEN suggested
             ELSE <<"Review section guidelines and add specifics.">>,
         riskDelta |-> clampDelta(riskDelta),
         flags |-> IF fl.type = "array" THEN filterStrings(fl.items) ELSE <<>>,
         source |-> "openai"]

evaluateWithOpenAI(sec, input, up) ==
    CASE up.kind = "noKey" ->
           [ok |-> FALSE,
            error |-> "OPENAI_API_KEY is not set. Add it to .env.local and restart the server."]
      [] up.kind = "hang" ->
           [ok |-> FALSE,
            error |-> "Request timed out (20s). Check your connection and try again."]
      [] up.kind = "reject" -> evaluateCatch(up.message)
      [] up.kind = "status" -> [ok |-> FALSE, error |-> evaluateStatusMessage(up)]
      [] up.kind = "transport" -> evaluateCatch(up.message)
      [] up.kind = "empty" ->
           [ok |-> FALSE, error |-> "OpenAI returned an empty response. Try again."]
      [] up.kind = "notJson" ->
           [ok |-> FALSE, error |-> "OpenAI response was not valid JSON. Try again."]
      [] up.kind = "reply" ->
           IF propThrows(up.parsed)
           THEN evaluateCatch("Cannot read properties of null (reading 'feedback')")
           ELSE [ok |-> TRUE, data |-> evaluationData(up.parsed)]

\* feedback += (feedback ? " " : "") + msg
addFeedback(feedback, msg) == feedback \o (IF feedback # "" THEN " " ELSE "") \o msg

\* if (!flags.includes(probe)) flags.push(flag)
pushUnless(flags, probe, flag) == IF includes(flags, probe) THEN flags ELSE Append(flags, flag)

openingPlaceholder_NoKeyword(text) ==
    IF text = "" \/ Len(text) < 3
    THEN [feedback |-> "Please share the project name and whether it's a new initiative or part of an existing product.",
          suggestedImprovements |-> <<"Add the project name and indicate new vs existing initiative.">>,
          riskDelta |-> 5, flags |-> <<"Incomplete Answer">>, source |-> "placeholder"]
    ELSE [feedback |-> "Thanks for the project name. Could you confirm whether this is a new initiative or part of an existing product?",
          suggestedImprovements |-> <<"Clarify if this is a new initiative or part of an existing product.">>,
          riskDelta |-> 3, flags |-> <<>>, source |-> "placeholder"]

\* the Opening branch of evaluateWithPlaceholder
openingPlaceholder(text) ==
    IF text = "" \/ Len(text) < 3
    THEN [feedback |-> "Please share the project name and whether it's a new initiative or part of an existing product.",
          suggestedImprovements |-> <<"Add the project name and indicate new vs existing initiative.">>,
          riskDelta |-> 5, flags |-> <<"Incomplete Answer">>, source |-> "placeholder"]
    ELSE LET hasNewOrExisting ==
                 testAny({"new", "existing", "current", "initiative", "product", "redesign",
                          "part of"}, text)
         IN  [feedback |->
                  IF hasNewOrExisting
                  THEN "Thanks, that helps. We'll use this as we go through the next questions."
                  ELSE "Thanks for the project name. Could you confirm whether this is a new initiative or part of an existing product?",
              suggestedImprovements |->
                  IF hasNewOrExisting THEN <<>>
                  ELSE <<"Clarify if this is a new initiative or part of an existing product.">>,
              riskDelta |-> IF hasNewOrExisting THEN 0 ELSE 3,
              flags |-> <<>>, source |-> "placeholder"]

\* the checks of a section answer, each taking and returning the
\* accumulated feedback (f), riskDelta (d), flags (fl) and suggestions (s)
checkLength_Three(acc, text, isObjectivesSection) ==
    IF text = "" \/ Len(text) < 3
    THEN [acc EXCEPT !.d = acc.d + 5, !.fl = Append(acc.fl, "Incomplete Answer")]
    ELSE acc

checkLength(acc, text, isObjectivesSection) ==
    IF text = "" \/ Len(text) < 10
    THEN [f |-> IF isObjectivesSection
                THEN "Please be more specific. What objectives do you want to achieve? What does success look like for this project? Adding concrete outcomes will help the design team plan effectively."
                ELSE "Your answer is quite short. Consider adding more detail to fully describe this section.",
          d |-> acc.d + 5,
          fl |-> Append(acc.fl, "Incomplete Answer"),
          s |-> Append(acc.s, IF isObjectivesSection
                              THEN "State clear objectives and desired outcomes (what success looks like)."
                              ELSE "Add more detail to fully describe this section.")]
    ELSE acc

checkMetrics_Always(acc, text) ==
    [f |-> addFeedback(acc.f, "Consider adding a measurable outcome to strengthen this request."),
     d |-> acc.d + 3,
     fl |-> pushUnless(acc.fl, "Missing Metrics", "Missing Metrics"),
     s |-> Append(acc.s, "Add a measurable outcome to strengthen this request.")]

checkMetrics(acc, text) ==
    IF testAny({"metric", "percent", "time"}, text)
    THEN [acc EXCEPT !.f = addFeedback(acc.f, "Good, you included measurable outcomes.")]
    ELSE [f |-> addFeedback(acc.f, "Consider adding a measurable outcome to strengthen this request."),
          d |-> acc.d + 3,
          fl |-> pushUnless(acc.fl, "Missing Metrics", "Missing Metrics"),
          s |-> Append(acc.s, "Add a measurable outcome to strengthen this request.")]

\* the branch of evaluateWithPlaceholder for the sections after Opening
sectionPlaceholder(sec, text) ==
    LET isObjectivesSection == sec = "Objectives and Outcomes"
        checkDetail(acc) ==
            IF Len(text) >= 10 /\ Len(text) < 50 /\ isObjectivesSection
            THEN [acc EXCEPT
                    !.f = addFeedback(acc.f, "Can you add more detail? For example: what improvement are you expecting, and why does this matter to the business or users?"),
                    !.s = IF \E i \in 1..Len(acc.s) : strIncludes(acc.s[i], "improvement")
                          THEN acc.s
                          ELSE Append(acc.s, "Add expected improvement and business or user impact.")]
            ELSE acc
        checkSolution(acc) ==
            IF testAny({"dashboard", "page", "screen"}, text)
            THEN [f |-> addFeedback(acc.f, "This sounds solution-focused. Try describing the underlying problem or outcome instead of the UI."),
                  d |-> acc.d + 5,
                  fl |-> pushUnless(acc.fl, "Solution Bias", "Solution Bias"),
                  s |-> Append(acc.s, "Describe the underlying problem or outcome instead of the UI.")]
            ELSE acc
        checkStakeholders(acc) ==
            IF testAny({"team", "stakeholder", "dependency"}, text)
            THEN [acc EXCEPT !.f = addFeedback(acc.f, "Nice, you mentioned stakeholders or dependencies.")]
            ELSE [f |-> addFeedback(acc.f, "Include relevant teams, stakeholders, or dependencies."),
                  d |-> acc.d + 2,
                  fl |-> pushUnless(acc.fl, "Dependency Risk", "Missing Stakeholders/Dependencies"),
                  s |-> Append(acc.s, "Include relevant teams, stakeholders, or dependencies.")]
        a0 == [f |-> "", d |-> 0, fl |-> <<>>, s |-> <<>>]
        a1 == checkLength(a0, text, isObjectivesSection)
        a2 == checkDetail(a1)
        a3 == checkSolution(a2)
        a4 == checkMetrics(a3, text)
        a5 == checkStakeholders(a4)
    IN  [feedback |->
             IF strTrim(a5.f) = ""
             THEN "Thanks for sharing. Consider adding more detail to strengthen this section."
             ELSE strTrim(a5.f),
         suggestedImprovements |->
             IF Len(a5.s) > 0 THEN a5.s
             ELSE <<"Review section guidelines and add specifics.">>,
         riskDelta |-> IF a5.d > 20 THEN 20 ELSE a5.d,
         flags |-> a5.fl,
         source |-> "placeholder"]

evaluateWithPlaceholder(sec, input) ==
    LET text == strTrim(input)
    IN  IF sec = "Opening" THEN openingPlaceholder(text) ELSE sectionPlaceholder(sec, text)

\* ---------------------------------------------------------- HTTP replies
\* NextResponse.json(body, {status, headers}); called records whether the
\* handler got as far as the function that talks to the external service
Reply(status, body, headers, called) ==
    [status |-> status, body |-> body, headers |-> headers, called |-> called]

NoHeaders == [h \in {} |-> ""]

validSections == {"Opening", "Objectives and Outcomes", "Constraints and Considerations"}

\* o with the extra field name
withField(o, name, v) == [n \in DOMAIN o \cup {name} |-> IF n = name THEN v ELSE o[n]]

evaluatePOST_NoError(body, up) ==
    LET sec == prop(body, "section")
        input == prop(body, "input")
    IN  IF body.type = "unparsable" \/ propThrows(body)
        THEN Reply(500, [error |-> "Evaluation failed"], NoHeaders, FALSE)
        ELSE IF falsy(sec) \/ input.type # "string"
        THEN Reply(400, [error |-> "Missing or invalid section or input"], NoHeaders, FALSE)
        ELSE IF ~(sec.type = "string" /\ sec.value \in validSections)
        THEN Reply(400, [error |-> "Invalid section name"], NoHeaders, FALSE)
        ELSE LET result == evaluateWithOpenAI(sec.value, input.value, up)
             IN  IF result.ok
                 THEN Reply(200, withField(result.data, "section", sec.value), NoHeaders, TRUE)
                 ELSE Reply(200,
                            withField(evaluateWithPlaceholder(sec.value, input.value),
                                      "section", sec.value),
                            NoHeaders, TRUE)

\* POST of the evaluate-section route
evaluatePOST(body, up) ==
    LET sec == prop(body, "section")
        input == prop(body, "input")
    IN  IF body.type = "unparsable" \/ propThrows(body)
        THEN Reply(500, [error |-> "Evaluation failed"], NoHeaders, FALSE)
        ELSE IF falsy(sec) \/ input.type # "string"
        THEN Reply(400, [error |-> "Missing or invalid section or input"], NoHeaders, FALSE)
        ELSE IF ~(sec.type = "string" /\ sec.value \in validSections)
        THEN Reply(400, [error |-> "Invalid section name"], NoHeaders, FALSE)
        ELSE LET result == evaluateWithOpenAI(sec.value, input.value, up)
             IN  IF result.ok
                 THEN Reply(200, withField(result.data, "section", sec.value), NoHeaders, TRUE)
                 ELSE Reply(200,
                            withField(withField(evaluateWithPlaceholder(sec.value, input.value),
                                                "section", sec.value),
                                      "openaiError", result.error),
                            NoHeaders, TRUE)

\* ---------------------------------------- summary, follow-up and concept
\* the message the three generators give for a non-ok status
statusMessage(up) ==
    IF ~falsy(up.message) /\ up.message.type = "string"
    THEN slice(up.message.value, 150)
    ELSE "OpenAI error (" \o ToString(up.status) \o ")"

\* typeof parsed[name] === "string" ? parsed[name] : "-"
stringOrDash(parsed, name) ==
    IF prop(parsed, name).type = "string" THEN prop(parsed, name) ELSE Str(DASH)

\* what the three generators do up to the parsed reply: a failure record,
\* or ok with nothing else when parsed is there to be read
generatorOutcome(up, noKeyMsg, timeoutMsg, firstField) ==
    CASE up.kind = "noKey" -> [ok |-> FALSE, error |-> noKeyMsg]
      [] up.kind = "hang" -> [ok |-> FALSE, error |-> timeoutMsg]
      [] up.kind = "reject" -> [ok |-> FALSE, error |-> up.message]
      [] up.kind = "status" -> [ok |-> FALSE, error |-> statusMessage(up)]
      [] up.kind = "transport" -> [ok |-> FALSE, error |-> up.message]
      [] up.kind = "empty" -> [ok |-> FALSE, error |-> "OpenAI returned an empty response."]
      [] up.kind = "notJson" -> [ok |-> FALSE, error |-> "OpenAI response was not valid JSON."]
      [] up.kind = "reply" ->
           IF propThrows(up.parsed)
           THEN [ok |-> FALSE,
                 error |-> "Cannot read properties of null (reading '" \o firstField \o "')"]
           ELSE [ok |-> TRUE]

generateSummaryWithOpenAI(up) ==
    LET r == generatorOutcome(up,
                 "OPENAI_API_KEY is not set. Add it to .env.local and restart the server.",
                 "Request timed out. Try again.", "problem")
    IN  IF ~r.ok THEN r
        ELSE [ok |-> TRUE,
              data |-> [problem |-> stringOrDash(up.parsed, "problem"),
                        desiredOutcome |-> stringOrDash(up.parsed, "desiredOutcome"),
                        usersImpacted |-> stringOrDash(up.parsed, "usersImpacted"),
                        businessValue |-> stringOrDash(up.parsed, "businessValue"),
                        constraints |-> stringOrDash(up.parsed, "constraints")]]

\* a?.trim() || b
trimOr(a, b) == IF strTrim(a) # "" THEN strTrim(a) ELSE b

placeholderSummary(opening, problemFraming, objectives, constraints) ==
    [problem |-> Str(trimOr(problemFraming, trimOr(opening, DASH))),
     desiredOutcome |-> Str(trimOr(objectives, DASH)),
     usersImpacted |-> Str(DASH),
     businessValue |-> Str(DASH),
     constraints |-> Str(trimOr(constraints, DASH))]

\* new Headers(...) accepts a value that holds no line break (nor NUL, nor a
\* code unit above 255, which the texts here do not have)
validHeaderValue(v) == ~strIncludes(v, "\n") /\ ~strIncludes(v, "\r")

\* const { name = "" } = body
withDefault(body, name) == IF prop(body, name).type = "undefined" THEN Str("") ELSE prop(body, name)

\* POST of the generate-summary route
summaryPOST(body, up) ==
    IF body.type = "unparsable" \/ propThrows(body)
    THEN Reply(500, [error |-> "Failed to generate summary"], NoHeaders, FALSE)
    ELSE LET opening == String(withDefault(body, "opening"))
             problemFraming == String(withDefault(body, "problemFraming"))
             objectives == String(withDefault(body, "objectives"))
             constraints == String(withDefault(body, "constraints"))
             result == generateSummaryWithOpenAI(up)
         IN  IF result.ok THEN Reply(200, result.data, NoHeaders, TRUE)
             ELSE IF validHeaderValue(result.error)
             THEN Reply(200, placeholderSummary(opening, problemFraming, objectives, constraints),
                        "X-OpenAI-Error" :> result.error, TRUE)
             ELSE Reply(500, [error |-> "Failed to generate summary"], NoHeaders, TRUE)

\* the strings of items that are not blank
RECURSIVE filterQuestions(_)
filterQuestions(items) ==
    IF items = <<>> THEN <<>>
    ELSE (IF Head(items).type = "string" /\ Len(strTrim(Head(items).value)) > 0
          THEN <<Head(items).value>> ELSE <<>>)
             \o filterQuestions(Tail(items))

\* generateWithOpenAI of the follow-up route
generateWithOpenAI(up) ==
    LET r == generatorOutcome(up, "OPENAI_API_KEY is not set.", "Request timed out.", "intro")
        pi == prop(up.parsed, "intro")
        pq == prop(up.parsed, "questions")
        intro == IF pi.type = "string" THEN strTrim(pi.value) ELSE ""
        questions == IF pq.type = "array" THEN filterQuestions(pq.items) ELSE <<>>
    IN  IF ~r.ok THEN r
        ELSE IF intro = "" /\ Len(questions) = 0
        THEN [ok |-> FALSE, error |-> "OpenAI did not return intro or questions."]
        ELSE [ok |-> TRUE,
              data |-> [intro |-> IF intro # "" THEN intro
                                  ELSE "Could you share a bit more about:",
                        questions |->
                            IF Len(questions) > 0 THEN questions
                            ELSE <<"What constraints or considerations should we know about?">>]]

\* POST of the generate-follow-up-questions route
followUpPOST(body, up) ==
    IF body.type = "unparsable" \/ propThrows(body)
    THEN Reply(500, [error |-> "Failed to generate follow-up questions."], NoHeaders, FALSE)
    ELSE LET stringOrEmpty(v) == IF v.type \in {"null", "undefined"} THEN "" ELSE String(v)
             openingStr == strTrim(stringOrEmpty(withDefault(body, "opening")))
             objectivesStr == strTrim(stringOrEmpty(withDefault(body, "objectives")))
             result == generateWithOpenAI(up)
         IN  IF openingStr = "" /\ objectivesStr = ""
             THEN Reply(400, [error |-> "At least one of opening or objectives is required."],
                        NoHeaders, FALSE)
             ELSE IF result.ok THEN Reply(200, result.data, NoHeaders, TRUE)
             ELSE Reply(502, [error |-> result.error], NoHeaders, TRUE)

generateConceptWithOpenAI(up) ==
    LET r == generatorOutcome(up, "OPENAI_API_KEY is not set.",
                              "Request timed out. Try again.", "experienceGoal")
    IN  IF ~r.ok THEN r
        ELSE [ok |-> TRUE,
              data |-> [experienceGoal |-> stringOrDash(up.parsed, "experienceGoal"),
                        suggestedLayout |-> stringOrDash(up.parsed, "suggestedLayout"),
                        keyElements |-> stringOrDash(up.parsed, "keyElements"),
                        interactionModel |-> stringOrDash(up.parsed, "interactionModel"),
                        designConsiderations |-> stringOrDash(up.parsed, "designConsiderations")]]

placeholderConcept(summary) ==
    LET valueOrDash(v) == IF falsy(v) THEN Str(DASH) ELSE v
    IN
    [experienceGoal |-> valueOrDash(prop(summary, "desiredOutcome")),
     suggestedLayout |-> Str(DASH),
     keyElements |-> Str(DASH),
     interactionModel |-> Str(DASH),
     designConsiderations |-> valueOrDash(prop(summary, "constraints"))]

\* POST of the generate-visual-concept route
conceptPOST(body, up) ==
    IF body.type = "unparsable"
    THEN Reply(500, [error |-> "Failed to generate visual concept"], NoHeaders, FALSE)
    ELSE IF falsy(body) \/ prop(body, "problem").type # "string"
    THEN Reply(400, [error |-> "Missing or invalid Design Request Summary"], NoHeaders, FALSE)
    ELSE LET result == generateConceptWithOpenAI(up)
         IN  IF result.ok THEN Reply(200, result.data, NoHeaders, TRUE)
             ELSE IF validHeaderValue(result.error)
             THEN Reply(200, placeholderConcept(body), "X-OpenAI-Error" :> result.error, TRUE)
             ELSE Reply(500, [error |-> "Failed to generate visual concept"], NoHeaders, TRUE)

\* no response yet
Pending == Reply(0, <<>>, NoHeaders, FALSE)

\* ------------------------------------------------------- generate-mockup
\* The image service under the same modes: with no key the route still calls
\* it (with "Bearer undefined") and it answers 401; empty and notJson are
\* bodies with no data array.  hang: the route sets no timer, so it never
\* responds (Pending).
mockupPOST(body, up) ==
    IF body.type = "unparsable" \/ propThrows(body)
    THEN Reply(500, [error |-> "Mockup generation failed"], NoHeaders, FALSE)
    ELSE IF falsy(prop(body, "intentSummary"))
    THEN Reply(400, [error |-> "Missing intent summary"], NoHeaders, FALSE)
    ELSE CASE up.kind = "hang" -> Pending
           [] up.kind = "noKey" ->
                Reply(401, [error |-> "Incorrect API key provided: undefined."], NoHeaders, TRUE)
           [] up.kind \in {"reject", "transport"} ->
                Reply(500, [error |-> "Mockup generation failed"], NoHeaders, TRUE)
           [] up.kind = "status" ->
                Reply(up.status,
                      [error |-> IF falsy(up.message) THEN "Image generation failed"
                                 ELSE String(up.message)],
                      NoHeaders, TRUE)
           [] up.kind \in {"empty", "notJson"} ->
                Reply(500, [error |-> "Image response missing b64_json or url"], NoHeaders, TRUE)
           [] up.kind = "reply" ->
                IF propThrows(up.parsed)
                THEN Reply(500, [error |-> "Mockup generation failed"], NoHeaders, TRUE)
                ELSE LET data == prop(up.parsed, "data")
                         first == IF data.type = "array" /\ Len(data.items) > 0
                                  THEN data.items[1] ELSE JsonNull
                     IN  IF ~falsy(prop(first, "b64_json"))
                         THEN Reply(200, [image |-> prop(first, "b64_json").value], NoHeaders, TRUE)
                         ELSE IF ~falsy(prop(first, "url"))
                         THEN Reply(200, [imageUrl |-> prop(first, "url").value], NoHeaders, TRUE)
                         ELSE Reply(500, [error |-> "Image response missing b64_json or url"],
                                    NoHeaders, TRUE)

\* the text of n characters c
RECURSIVE repeat(_, _)
repeat(c, n) ==
    IF n = 0 THEN ""
    ELSE IF n % 2 = 0 THEN LET half == repeat(c, n \div 2) IN half \o half
    ELSE c \o repeat(c, n - 1)

\* what the route puts into the image request: the two inputs as they stand
\* in the prompt, and the prompt as sent.  The horizontal ellipsis the code
\* appends (one UTF-16 code unit) is written "~".
mockupPrompt(body) ==
    LET ELLIPSIS == "~"
        intentStr == String(prop(body, "intentSummary"))
        truncatedIntent == IF Len(intentStr) > 500 THEN slice(intentStr, 500) \o ELLIPSIS
                           ELSE intentStr
        objectivesStr == IF prop(body, "objectives").type \in {"null", "undefined"} THEN ""
                         ELSE String(prop(body, "objectives"))
        truncatedObjectives == IF Len(objectivesStr) > 200
                               THEN slice(objectivesStr, 200) \o ELLIPSIS
                               ELSE objectivesStr
        prompt == strTrim("\nCreate a clean SaaS product UI mockup.\n\nScreen Purpose:\nA UX Design Request Intake Assistant\n\nUser Goal:\n"
                          \o truncatedIntent
                          \o "\n\nBusiness Objectives:\n"
                          \o (IF truncatedObjectives # "" THEN truncatedObjectives
                              ELSE "Not specified")
                          \o "\n\nLayout Should Include:\n- AI assistant welcome panel\n- User response area\n- Request summary card\n- Suggested solution preview\n- Progress indicator\n\nStyle:\n- Modern enterprise SaaS\n- Wireframe fidelity\n- Neutral tones\n- Desktop layout\n- Product management tooling feel\n\nGoal:\nHelp teams visualize a structured design request flow before submission\n")
    IN  [service |-> "images/generations",
         truncatedIntent |-> truncatedIntent,
         truncatedObjectives |-> truncatedObjectives,
         finalPrompt |-> IF Len(prompt) > 1000 THEN slice(prompt, 997) \o ELLIPSIS ELSE prompt]

\* what the mockup route sends to the image service: nothing when the body
\* is refused, else the request with the prompt, whether or not a key is set
imageRequest(body) ==
    IF body.type = "unparsable" \/ propThrows(body) \/ falsy(prop(body, "intentSummary"))
    THEN [service |-> NULL]
    ELSE mockupPrompt(body)

\* what the other four routes send to the chat service: their generators
\* return before the fetch when process.env.OPENAI_API_KEY is not set
chatRequest(response, up) ==
    [service |-> IF response.called /\ up.kind # "noKey" THEN "chat/completions" ELSE NULL]

\* ------------------------------------------------- requests to the routes
\* the answers sent for evaluation
InputTexts ==
    {"", "  ", "ab", " ab\n", "tbd", "  tbd  ", "PAGE", "123456789", "1234567890",
     "Apollo", "Project Nova", "Project Nova - new initiative", "REDESIGN of billing",
     "A new dashboard", "Reduce handling time", "Align the team on scope",
     "Cut time spent by the ops team by 20 percent",
     "Dashboard for the whole department, no exceptions",
     "Dashboard for the whole department, no exceptions!",
     "Improve onboarding so that more customers finish signing up quickly",
     "We need a screen that shows every metric the support team tracks daily"}

\* a JSON object with the fields whose value is defined
Body(names, value) == Obj([n \in {m \in names : value[m].type # "undefined"} |-> value[n]])

\* the largest magnitude of a risk delta in a reply of the external service
MaxReplyDelta == 40

\* the longest intent summary and objectives text sent to the mockup route
MaxIntentLen == 1200

MaxObjectivesLen == 900

\* what the external service's reply parses to
Replies ==
    { Obj([feedback |-> Str("Clear goal."), riskDelta |-> Num(d),
           flags |-> Arr(<<Str("Solution Bias"), Num(3)>>),
           suggestedImprovements |-> Arr(<<Str("Name the metric.")>>)]) :
        d \in {-MaxReplyDelta, -11, -10, 0, 25, 26, MaxReplyDelta} }
    \cup
    { Obj([risk_delta |-> Num(MaxReplyDelta)]), Obj([riskDelta |-> Str("15")]),
      Obj([riskDelta |-> Str("15"), risk_delta |-> Num(-MaxReplyDelta)]),
      Obj([feedback |-> Num(1), flags |-> Str("none")]),
      Obj([problem |-> Str("Checkout is slow"), desiredOutcome |-> Str("Faster checkout"),
           usersImpacted |-> Str("Shoppers"), businessValue |-> Num(3)]),
      Obj([intro |-> Str(" To refine this: "),
           questions |-> Arr(<<Str("Who is affected?"), Str("  "), Num(2)>>)]),
      Obj([intro |-> Str("  "), questions |-> Arr(<<>>)]),
      Obj([experienceGoal |-> Str("Calm checkout"), suggestedLayout |-> Str("Single column")]),
      Obj([data |-> Arr(<<Obj([b64_json |-> Str("iVBORw0KGgo=")])>>)]),
      Obj([data |-> Arr(<<Obj([url |-> Str("https://images.example/1.png")])>>)]),
      Arr(<<>>), Num(5) }

UpstreamModes == FailureModes \cup {[kind |-> "reply", parsed |-> p] : p \in Replies}

\* the request bodies sent to each route
RouteBodies(route) ==
    CASE route = "evaluate-section" ->
        { Body({"section", "input"}, [section |-> s, input |-> i]) :
            s \in {Str(v) : v \in validSections}, i \in {Str(t) : t \in InputTexts} }
        \cup
        { Body({"section", "input"}, [section |-> s, input |-> i]) :
            s \in {Undefined, JsonNull, Str(""), Str("Problem Framing"), Str("opening"), Num(1),
                   Str("Opening")},
            i \in {Undefined, JsonNull, Num(3), Arr(<<Str("tbd")>>), Str("tbd")} }
        \cup {JsonNull, Unparsable, Arr(<<>>), Str("Opening")}
      [] route = "generate-summary" ->
        { Body({"opening", "problemFraming", "objectives", "constraints"},
               [opening |-> o, problemFraming |-> p, objectives |-> b, constraints |-> c]) :
            o \in {Str(""), Str("Nova ")}, p \in {Undefined, Str(""), Str(" slow checkout ")},
            b \in {Str(""), Str("faster")}, c \in {Str("  "), Str("Q3")} }
        \cup {JsonNull, Unparsable}
      [] route = "generate-follow-up-questions" ->
        { Body({"opening", "objectives"}, [opening |-> o, objectives |-> b]) :
            o \in {Undefined, JsonNull, Str(""), Str("  "), Str("Nova"), Num(0)},
            b \in {Undefined, Str(""), Str(" grow ")} }
        \cup {JsonNull, Unparsable}
      [] route = "generate-visual-concept" ->
        { Body({"problem", "desiredOutcome", "constraints"},
               [problem |-> p, desiredOutcome |-> d, constraints |-> c]) :
            p \in {Undefined, JsonNull, Num(3), Str(""), Str("Slow checkout")},
            d \in {Undefined, Str(""), Str("Faster")}, c \in {Undefined, Str("Q3")} }
        \cup {JsonNull, Unparsable, Str("Slow checkout")}
      [] route = "generate-mockup" ->
        { Body({"intentSummary", "objectives"}, [intentSummary |-> i, objectives |-> b]) :
            i \in {Undefined, JsonNull, Str(""), Num(0), Num(7), Str("Slow checkout Faster Q3")}
                     \cup {Str(repeat("x", n)) : n \in {499, 500, 501, MaxIntentLen}},
            b \in {Undefined, JsonNull, Str(""), Str("faster")}
                     \cup {Str(repeat("y", n)) : n \in {200, 201, MaxObjectivesLen}} }
        \cup {JsonNull, Unparsable}

Routes == {"evaluate-section", "generate-summary", "generate-follow-up-questions",
           "generate-visual-concept", "generate-mockup"}

\* one request has arrived at one route, under one behaviour of the
\* external service
InitRoute ==
    /\ InitWizard
    /\ upstream \in UpstreamModes
    /\ \E route \in Routes : \E body \in RouteBodies(route) :
         call = [route |-> route, body |-> body, response |-> Pending,
                 sent |-> [service |-> NULL]]

\* the handler runs: sent is what it sent to the external service (service
\* NULL: nothing), response what it returned
respond(route, response, sent) ==
    /\ call.route = route
    /\ call.response = Pending
    /\ call' = [call EXCEPT !.response = response, !.sent = sent]
    /\ UNCHANGED <<wizardVars, upstream>>

evaluateSection ==
    LET r == evaluatePOST(call.body, upstream)
    IN  respond("evaluate-section", r, chatRequest(r, upstream))

generateSummary ==
    LET r == summaryPOST(call.body, upstream)
    IN  respond("generate-summary", r, chatRequest(r, upstream))

generateFollowUpQuestions ==
    LET r == followUpPOST(call.body, upstream)
    IN  respond("generate-follow-up-questions", r, chatRequest(r, upstream))

generateVisualConcept ==
    LET r == conceptPOST(call.body, upstream)
    IN  respond("generate-visual-concept", r, chatRequest(r, upstream))

generateMockup ==
    respond("generate-mockup", mockupPOST(call.body, upstream), imageRequest(call.body))

NextRoute ==
    \/ evaluateSection
    \/ generateSummary
    \/ generateFollowUpQuestions
    \/ generateVisualConcept
    \/ generateMockup

SpecRoute == InitRoute /\ [][NextRoute]_vars

\* --------------------------------------- the wizard served by the routes
\* the string of a text
RECURSIVE toStr(_)
toStr(t) == IF t = <<>> THEN "" ELSE Head(t) \o toStr(Tail(t))

\* the answers a user gives who leaves no answer empty
AnswerTexts == {t \in Texts : trim(t) # <<>>}

\* the section name handleNext sends for a step
sectionOf(step) == IF step = STEP_OPENING THEN "Opening" ELSE SECTIONS[step]

\* The routes' responses to the bodies the wizard sends, one table per fetch.
\* body: { section, input: trimmed }
servedEvaluation ==
    [up \in UpstreamModes, step \in STEP_OPENING..STEP_LAST_SECTION,
     t \in {trim(a) : a \in AnswerTexts} |->
        evaluatePOST(Obj([section |-> Str(sectionOf(step)), input |-> Str(toStr(t))]), up)]

\* body: { opening, problemFraming: "", objectives, constraints }
servedSummary ==
    [up \in UpstreamModes, o \in Texts, b \in Texts, c \in Texts |->
        summaryPOST(Obj([opening |-> Str(toStr(o)), problemFraming |-> Str(""),
                         objectives |-> Str(toStr(b)), constraints |-> Str(toStr(c))]), up)]

\* body: { opening, objectives }, both trimmed
servedFollowUp ==
    [up \in UpstreamModes, o \in Texts, b \in Texts |->
        followUpPOST(Obj([opening |-> Str(toStr(trim(o))),
                          objectives |-> Str(toStr(trim(b)))]), up)]

\* body: the summary, whose problem is a string
servedConcept ==
    [up \in UpstreamModes |-> conceptPOST(Obj([problem |-> Str("summary")]), up)]

\* body: { intentSummary, objectives }, intentSummary joining the summary's
\* problem, desired outcome and constraints
servedMockup ==
    [up \in UpstreamModes |-> mockupPOST(Obj([intentSummary |-> Str("summary")]), up)]

\* the evaluation fetch resolves with the route's response
evalServed ==
    \E i \in 1..Len(evalReq) :
        LET r == servedEvaluation[upstream, evalReq[i].step, evalReq[i].input]
        IN  IF r.status = 200
            THEN evalSuccess(i, [riskDelta |-> r.body.riskDelta, flags |-> r.body.flags])
            ELSE evalFailure(i, "http")

summaryServed ==
    \E i \in 1..Len(summaryReq) :
        LET r == servedSummary[upstream, openingResponse, sectionValues[SECTIONS[1]],
                               sectionValues[SECTIONS[2]]]
        IN  IF "problem" \in DOMAIN r.body
            THEN \E data \in SummaryValues : summarySuccess(i, data)
            ELSE summaryFailure(i, "shape")

followUpServed ==
    \E i \in 1..Len(followUpReq) :
        LET r == servedFollowUp[upstream, openingResponse, sectionValues[SECTIONS[1]]]
        IN  IF r.status = 200
            THEN \E data \in FollowUpValues : followUpSuccess(i, data)
            ELSE followUpFailure(i)

conceptServed ==
    \E i \in 1..Len(conceptReq) :
        LET r == servedConcept[upstream]
        IN  IF "experienceGoal" \in DOMAIN r.body
            THEN \E data \in ConceptValues : conceptSuccess(i, data)
            ELSE conceptFailure(i, "shape")

\* the mockup fetch has no timer either: it resolves when the route responds
mockupServed ==
    \E i \in 1..Len(mockupReq) :
        LET r == servedMockup[upstream]
        IN  /\ r # Pending
            /\ IF "image" \in DOMAIN r.body
               THEN mockupSuccess(i, "data:image/png;base64,")
               ELSE IF "imageUrl" \in DOMAIN r.body
               THEN mockupSuccess(i, "imageUrl")
               ELSE mockupFailure(i, r.body.error)

\* the external services behave in one way for the whole session
InitServed ==
    /\ InitWizard
    /\ call = NULL
    /\ upstream \in UpstreamModes

typeAnswer ==
    \E t \in AnswerTexts : setOpeningResponse(t) \/ setSectionValues(t)

offerVisual == \E yes \in BOOLEAN : handleOfferVisual(yes)

NextServed ==
    \/ typeAnswer
    \/ handleNext
    \/ summaryNext
    \/ offerVisual
    \/ conceptNext
    \/ evalServed
    \/ summaryServed
    \/ followUpServed
    \/ conceptServed
    \/ mockupServed

\* every response that is due arrives, and the user goes on typing answers
\* and taking the forward action of the screen
SpecServed ==
    /\ InitServed
    /\ [][NextServed]_vars
    /\ WF_vars(typeAnswer)
    /\ WF_vars(handleNext)
    /\ WF_vars(summaryNext)
    /\ WF_vars(offerVisual)
    /\ WF_vars(conceptNext)
    /\ WF_vars(evalServed)
    /\ WF_vars(summaryServed)
    /\ WF_vars(followUpServed)
    /\ WF_vars(conceptServed)
    /\ WF_vars(mockupServed)

\* ======================================================== properties
Range(q) == {q[i] : i \in 1..Len(q)}

NoDuplicates(q) == \A i, j \in 1..Len(q) : q[i] = q[j] => i = j

Clamp(x, lo, hi) == IF x < lo THEN lo ELSE IF x > hi THEN hi ELSE x

\* the elements of q at the indices in idx, in ascending index order
RECURSIVE PickFrom(_, _, _)
PickFrom(q, idx, i) ==
    IF i > Len(q) THEN <<>>
    ELSE (IF i \in idx THEN <<q[i]>> ELSE <<>>) \o PickFrom(q, idx, i + 1)

\* the flags of fl not in seen, each once, in order of first appearance
FirstSeen(fl, seen) ==
    PickFrom(fl, {i \in 1..Len(fl) : fl[i] \notin seen /\ \A j \in 1..(i - 1) : fl[j] # fl[i]}, 1)

\* the steps that gained a feedback in this step
Recorded == DOMAIN feedbacks' \ DOMAIN feedbacks

\* ---- C1
\* C1: whenever the current step is past step k (k = 0, 1, 2) a feedback is
\* recorded for k; the step moves forward from k only when feedback for k is
\* already recorded, and a feedback is only ever recorded by the answer to an
\* evaluation request that carried non-empty trimmed input for that step.
C1_GatingInv ==
    \A k \in STEP_OPENING..STEP_LAST_SECTION : currentStep > k => k \in DOMAIN feedbacks

C1_GatingStep ==
    /\ (currentStep' > currentStep /\ currentStep <= STEP_LAST_SECTION)
          => currentStep \in DOMAIN feedbacks
    /\ \A k \in Recorded :
          \E i \in 1..Len(evalReq) :
              /\ evalReq[i].step = k
              /\ evalReq[i].input # <<>>
              /\ trim(evalReq[i].input) = evalReq[i].input
              /\ Len(evalReq') < Len(evalReq)

C1_Gating == [](C1_GatingInv) /\ [][C1_GatingStep]_vars

C1_Witness ==
    currentStep = STEP_SUMMARY /\ DOMAIN feedbacks = {0, 1, 2} /\ resets = 0

\* ---- C2
\* the completion of a request that was issued before a reset
StaleCompletion ==
    \/ \E i \in 1..Len(evalReq) : evalReq[i].stale /\ Len(evalReq') < Len(evalReq)
    \/ \E i \in 1..Len(summaryReq) : summaryReq[i].stale /\ Len(summaryReq') < Len(summaryReq)
    \/ \E i \in 1..Len(followUpReq) : followUpReq[i].stale /\ Len(followUpReq') < Len(followUpReq)
    \/ \E i \in 1..Len(conceptReq) : conceptReq[i].stale /\ Len(conceptReq') < Len(conceptReq)
    \/ \E i \in 1..Len(mockupReq) : mockupReq[i].stale /\ Len(mockupReq') < Len(mockupReq)

\* C2: a response to a request issued before a reset changes neither the
\* feedbacks, the cumulative risk, the flags, the summary, the reference
\* concept, the mockup image nor any error field of the new run.
C2_StaleIgnored ==
    [][StaleCompletion =>
          UNCHANGED <<feedbacks, cumulativeRisk, allFlags, designRequestSummary,
                      referenceConcept, mockupImage, error, summaryError, followUpError,
                      conceptError, mockupError>>]_vars

\* ---- C3
\* C3: after any sequence of deltas the cumulative risk is within 0..100,
\* and applying a further delta, of any sign and size, gives
\* clamp(score + delta, 0, 100).
C3_RiskClamped ==
    /\ cumulativeRisk \in 0..100
    /\ \A delta \in (0 - MaxDelta)..MaxDelta :
          applyDelta(cumulativeRisk, delta) = Clamp(cumulativeRisk + delta, 0, 100)

C3_Witness == cumulativeRisk = 100

\* ---- C4
\* C4: the recommended action is Strategic Review Required if the flags
\* contain Strategic Misalignment or the score is at least 70, otherwise
\* Clarification Call Recommended if there is any flag or the score is at
\* least 45, otherwise Backlog Ready; with the four named cases.
ActionOf(score, flagSet) ==
    CASE "Strategic Misalignment" \in flagSet \/ score >= 70 -> "Strategic Review Required"
      [] ~("Strategic Misalignment" \in flagSet \/ score >= 70) /\ (flagSet # {} \/ score >= 45)
            -> "Clarification Call Recommended"
      [] OTHER -> "Backlog Ready"

C4_RecommendedAction ==
    /\ recommendedAction = ActionOf(cumulativeRisk, Range(allFlags))
    /\ getRecommendedAction(70, <<>>) = "Strategic Review Required"
    /\ getRecommendedAction(0, <<"Strategic Misalignment">>) = "Strategic Review Required"
    /\ getRecommendedAction(44, <<"Solution Bias">>) = "Clarification Call Recommended"
    /\ getRecommendedAction(10, <<>>) = "Backlog Ready"

C4_Witness == cumulativeRisk = 44 /\ allFlags = <<"Solution Bias">>

\* ---- C5
\* C5: the accumulated flag list has no duplicates and holds exactly the
\* flags of the recorded feedbacks; recording a feedback keeps the list so
\* far as a prefix and appends the feedback's new flags in order of first
\* appearance; merging a flag that is already present changes nothing.
C5_FlagsInv ==
    /\ NoDuplicates(allFlags)
    /\ Range(allFlags) = UNION {Range(feedbacks[k].flags) : k \in DOMAIN feedbacks}
    /\ \A f \in Range(allFlags) : mergeFlags(allFlags, <<f>>) = allFlags

C5_FlagsStep ==
    \A k \in Recorded :
        allFlags' = allFlags \o FirstSeen(feedbacks'[k].flags, Range(allFlags))

C5_FlagUnion == [](C5_FlagsInv) /\ [][C5_FlagsStep]_vars

C5_Witness ==
    /\ allFlags = <<"Solution Bias", "Strategic Misalignment", "Missing Metrics">>
    /\ DOMAIN feedbacks = {0, 1}

\* ---- C6
\* C6: a successful evaluation records the feedback of the request's step,
\* applies its delta to the cumulative risk, merges its flags and leaves the
\* current step as it is; no response of any request changes the step.
C6_EvalStep ==
    /\ \A i \in 1..Len(evalReq) : \A data \in EvalResults :
          (evalReq' # evalReq /\ evalSuccess(i, data)) =>
              /\ DOMAIN feedbacks' = DOMAIN feedbacks \cup {evalReq[i].step}
              /\ feedbacks'[evalReq[i].step] = data
              /\ \A k \in DOMAIN feedbacks \ {evalReq[i].step} : feedbacks'[k] = feedbacks[k]
              /\ cumulativeRisk' = Clamp(cumulativeRisk + data.riskDelta, 0, 100)
              /\ Range(allFlags') = Range(allFlags) \cup Range(data.flags)
              /\ currentStep' = currentStep
    /\ currentStep' # currentStep
          => ~(evalResponse \/ summaryResponse \/ followUpResponse \/ conceptResponse
                \/ mockupResponse)

C6_EvalRecords == [][C6_EvalStep]_vars

C6_Witness ==
    /\ currentStep = STEP_FIRST_SECTION
    /\ DOMAIN feedbacks = {0, 1}
    /\ cumulativeRisk = 15
    /\ ~loading

\* ---- C7
\* C7: with feedback recorded for the current step, Next moves exactly one
\* step forward (0 to 1, 1 to 2, 2 to 3), issues no evaluation request and
\* leaves feedbacks, cumulative risk and flags unchanged.
C7_NextStep ==
    (currentStep \in DOMAIN feedbacks /\ currentStep <= STEP_LAST_SECTION /\ handleNext) =>
        /\ currentStep' = currentStep + 1
        /\ UNCHANGED <<feedbacks, cumulativeRisk, allFlags, evalReq, loading>>

C7_AdvanceOnly == [][C7_NextStep]_vars

C7_Witness ==
    currentStep = STEP_LAST_SECTION /\ DOMAIN feedbacks = {0, 1} /\ evalReq = <<>> /\ resets = 0

\* ---- C8
\* the user can submit the current step's answer for evaluation
CanSubmit ==
    /\ currentStep \in STEP_OPENING..STEP_LAST_SECTION
    /\ ENABLED handleNext
    /\ currentStep \notin DOMAIN feedbacks
    /\ trim(IF currentStep = STEP_OPENING THEN openingResponse
            ELSE sectionValues[SECTIONS[currentStep]]) # <<>>

\* C8: a failed evaluation sets an error message, the timeout message for a
\* timeout and another one otherwise, leaves step, feedbacks, cumulative
\* risk and flags unchanged, issues no new request, and leaves the user able
\* to submit the same answer again.
C8_FailStep ==
    \A i \in 1..Len(evalReq) : \A kind \in EvalFailures :
        (evalReq' # evalReq /\ evalFailure(i, kind)) =>
            /\ error' # NULL
            /\ (kind = "timeout") <=> (error' = MSG_TIMEOUT)
            /\ UNCHANGED <<currentStep, feedbacks, cumulativeRisk, allFlags>>
            /\ evalReq' = Remove(evalReq, i)
            /\ ~loading'
            /\ ~evalReq[i].stale => CanSubmit'

C8_EvalFailure == [][C8_FailStep]_vars

C8_Witness ==
    /\ error = MSG_TIMEOUT
    /\ currentStep = STEP_FIRST_SECTION
    /\ 1 \notin DOMAIN feedbacks
    /\ evalReq = <<>>
    /\ resets = 0

\* ---- C9
\* C9: a reset, from any state, leaves the wizard on Opening with risk 0, no
\* flags, no feedback, empty answers, no summary, concept, mockup image,
\* visual-concept choice or error.
C9_Cleared ==
    /\ currentStep = STEP_OPENING
    /\ cumulativeRisk = 0
    /\ allFlags = <<>>
    /\ DOMAIN feedbacks = {}
    /\ openingResponse = <<>>
    /\ \A name \in DOMAIN sectionValues : sectionValues[name] = <<>>
    /\ designRequestSummary = NULL
    /\ referenceConcept = NULL
    /\ mockupImage = NULL
    /\ wantsVisualConcept = NULL
    /\ error = NULL
    /\ summaryError = NULL
    /\ followUpError = NULL
    /\ conceptError = NULL
    /\ mockupError = NULL

C9_Reset == [][(resets' # resets /\ resetWizard) => C9_Cleared']_vars

C9_Witness ==
    /\ resets = 1
    /\ C9_Cleared
    /\ conceptReq # <<>>
    /\ mockupReq # <<>>

\* ---- C10
\* C10: of each kind of call at most one request is outstanding, and while a
\* request of the current run is outstanding its result is not yet recorded.
C10_AtMostOne ==
    /\ Len(evalReq) <= 1
    /\ Len(summaryReq) <= 1
    /\ Len(conceptReq) <= 1
    /\ Len(mockupReq) <= 1
    /\ \A i \in 1..Len(evalReq) : ~evalReq[i].stale => evalReq[i].step \notin DOMAIN feedbacks
    /\ \A i \in 1..Len(summaryReq) : ~summaryReq[i].stale => designRequestSummary = NULL
    /\ \A i \in 1..Len(conceptReq) : ~conceptReq[i].stale => referenceConcept = NULL
    /\ \A i \in 1..Len(mockupReq) : ~mockupReq[i].stale => mockupImage = NULL

\* the mockup arrived, the triggers ran again, the concept request is still the only one
C10_Witness ==
    /\ currentStep = STEP_VISUAL_CONCEPT
    /\ Len(conceptReq) = 1
    /\ mockupImage # NULL
    /\ mockupReq = <<>>
    /\ Len(followUpReq) = 1

\* ---- C11
\* C11: while a summary is present no summary request is outstanding, so
\* none is issued and nothing can write the summary again; a present
\* summary changes only by a reset, which clears it.
C11_NoRequest == designRequestSummary # NULL => summaryReq = <<>>

C11_Kept ==
    (designRequestSummary # NULL /\ designRequestSummary' # designRequestSummary)
        => (resets' # resets /\ designRequestSummary' = NULL)

C11_SummaryOnce == [](C11_NoRequest) /\ [][C11_Kept]_vars

\* the summary arrived and the trigger ran again on the summary screen
C11_Witness ==
    /\ currentStep = STEP_SUMMARY
    /\ designRequestSummary # NULL
    /\ ~summaryLoading
    /\ summaryError = NULL
    /\ resets = 0

\* ---- C12
\* a step that enters the summary screen with no summary and no request outstanding
C12_Entered ==
    /\ currentStep # STEP_SUMMARY
    /\ currentStep' = STEP_SUMMARY
    /\ designRequestSummary' = NULL
    /\ summaryReq = <<>>

C12_Step ==
    /\ C12_Entered => \E i \in 1..Len(summaryReq') : ~summaryReq'[i].stale
    /\ (currentStep = STEP_SUMMARY /\ currentStep' # currentStep /\ resets' = resets)
          => currentStep' = STEP_OFFER_VISUAL

\* the forward action of the summary screen is available
C12_CanProceed == currentStep = STEP_SUMMARY => ENABLED summaryNext

\* C12: entering the summary screen with no summary and no request
\* outstanding issues a summary request; on the summary screen the forward
\* action is always available, with or without a summary, and it moves to
\* OfferVisual.
C12_SummaryProceed == [](C12_CanProceed) /\ [][C12_Step]_vars

\* ---- C13
\* C13: the step leaves OfferVisual only by the choice: either the opt-in
\* is recorded and the step is VisualConcept, or the opt-out is recorded
\* and the step is Final; the choice is recorded nowhere else, and a run
\* with the opt-out recorded is on Final, never on VisualConcept.
C13_ChoiceStep ==
    /\ (currentStep = STEP_OFFER_VISUAL /\ currentStep' # currentStep) =>
          \/ wantsVisualConcept' = "true" /\ currentStep' = STEP_VISUAL_CONCEPT
          \/ wantsVisualConcept' = "false" /\ currentStep' = STEP_FINAL
    /\ wantsVisualConcept' # wantsVisualConcept =>
          \/ currentStep = STEP_OFFER_VISUAL /\ wantsVisualConcept = NULL
          \/ resets' # resets /\ wantsVisualConcept' = NULL

C13_ChoiceInv ==
    /\ currentStep <= STEP_OFFER_VISUAL => wantsVisualConcept = NULL
    /\ wantsVisualConcept = "false" => currentStep = STEP_FINAL
    /\ wantsVisualConcept = "true" => currentStep \in {STEP_VISUAL_CONCEPT, STEP_FINAL}

C13_BinaryChoice == [](C13_ChoiceInv) /\ [][C13_ChoiceStep]_vars

C13_Witness ==
    /\ wantsVisualConcept = "false"
    /\ currentStep = STEP_FINAL
    /\ resets = 0

\* ---- C14
\* C14: a mockup request is issued only by a step that ends on
\* VisualConcept with the opt-in recorded and a summary present, and it is
\* then outstanding; in a run without the opt-in none has been issued.
C14_IssueStep ==
    mockupIssued' > mockupIssued =>
        /\ currentStep' = STEP_VISUAL_CONCEPT
        /\ wantsVisualConcept' = "true"
        /\ designRequestSummary' # NULL
        /\ \E i \in 1..Len(mockupReq') : ~mockupReq'[i].stale

C14_NoneWithoutOptIn == wantsVisualConcept # "true" => mockupIssued = 0

C14_MockupOptIn == [](C14_NoneWithoutOptIn) /\ [][C14_IssueStep]_vars

\* the opt-out chosen while the mockup request of an earlier run is still outstanding
C14_Witness ==
    /\ wantsVisualConcept = "false"
    /\ mockupIssued = 0
    /\ mockupReq # <<>>
    /\ conceptReq # <<>>

\* ---- C15
\* the step in which the user chooses on the visual-concept offer
C15_Chosen == currentStep = STEP_OFFER_VISUAL /\ currentStep' # currentStep

\* a concept request of the current run is outstanding
C15_Requested == \E i \in 1..Len(conceptReq) : ~conceptReq[i].stale

\* C15: the choice, Yes or No, issues a concept request on the step it
\* leads to, or leaves the run without a concept, so that the request is
\* still to be issued once the outstanding one has come back.
C15_ConceptTriggered == [][C15_Chosen => (C15_Requested' \/ referenceConcept' = NULL)]_vars

\* ---- C16
\* C16: a concept request of the current run is outstanding only on
\* VisualConcept with the opt-in or on Final with the opt-out, and the
\* recorded choice changes only by a reset, so one run never has both;
\* while a concept is present no concept request is outstanding, and a
\* present concept changes only by a reset, which clears it.
C16_OneTrigger ==
    /\ referenceConcept # NULL => conceptReq = <<>>
    /\ \A i \in 1..Len(conceptReq) :
          ~conceptReq[i].stale =>
              \/ currentStep = STEP_VISUAL_CONCEPT /\ wantsVisualConcept = "true"
              \/ currentStep = STEP_FINAL /\ wantsVisualConcept = "false"

C16_Kept ==
    /\ (referenceConcept # NULL /\ referenceConcept' # referenceConcept)
          => (resets' # resets /\ referenceConcept' = NULL)
    /\ (wantsVisualConcept # NULL /\ wantsVisualConcept' # wantsVisualConcept)
          => (resets' # resets /\ wantsVisualConcept' = NULL)

C16_ConceptOnce == [](C16_OneTrigger) /\ [][C16_Kept]_vars

\* the concept of the opt-in branch, kept on Final where the other trigger looks at it
C16_Witness ==
    /\ currentStep = STEP_FINAL
    /\ wantsVisualConcept = "true"
    /\ referenceConcept # NULL
    /\ ~conceptLoading
    /\ resets = 0

\* ---- C17
\* the forward action of the visual-concept screen is available
C17_CanAdvance == currentStep = STEP_VISUAL_CONCEPT => ENABLED conceptNext

C17_Step ==
    (currentStep = STEP_VISUAL_CONCEPT /\ currentStep' # currentStep /\ resets' = resets)
        => currentStep' = STEP_FINAL

\* C17: on VisualConcept the forward action is always available, whatever
\* became of the concept and mockup requests, and it moves to Final.
C17_AlwaysAdvance == [](C17_CanAdvance) /\ [][C17_Step]_vars

\* ---- C18
\* C18: at most one mockup request is issued between two resets; a mockup
\* error, once set by a failed request, stays until reset, and while it is
\* set no mockup request is issued; the step that sets it issues none.
C18_NoRetry ==
    /\ mockupError' # NULL => mockupIssued' = mockupIssued
    /\ (mockupError # NULL /\ mockupError' # mockupError) => resets' # resets

C18_AtMostOnce == mockupIssued <= 1

C18_MockupOnce == [](C18_AtMostOnce) /\ [][C18_NoRetry]_vars

\* the run's mockup request failed on the visual-concept screen
C18_Witness ==
    /\ currentStep = STEP_VISUAL_CONCEPT
    /\ mockupIssued = 1
    /\ mockupError # NULL
    /\ mockupReq = <<>>
    /\ ~mockupLoading
    /\ resets = 0

\* ---- C19
\* C19: from Final the step changes only by a reset, which leaves the
\* wizard on Opening with the state cleared; a change of the diagnostic
\* view's visibility on Final that is not a reset changes nothing else.
C19_Step ==
    /\ (currentStep = STEP_FINAL /\ currentStep' # currentStep)
          => (resets' # resets /\ C9_Cleared' /\ ~showUxView')
    /\ (currentStep = STEP_FINAL /\ showUxView' # showUxView /\ resets' = resets) =>
          UNCHANGED <<currentStep, openingResponse, sectionValues, cumulativeRisk, allFlags,
                      feedbacks, loading, error, designRequestSummary, summaryLoading,
                      summaryError, wantsVisualConcept, referenceConcept, conceptLoading,
                      conceptError, followUpForConstraints, followUpLoading, followUpError,
                      mockupImage, mockupLoading, mockupError, evalReq, summaryReq,
                      followUpReq, conceptReq, mockupReq, mockupIssued>>

C19_FinalTerminal == [][C19_Step]_vars

\* the view toggled on Final while the concept request is outstanding
C19_Witness ==
    /\ currentStep = STEP_FINAL
    /\ showUxView
    /\ conceptReq # <<>>
    /\ resets = 0

\* ---- C20
\* C20: the step stays within Opening..Final and changes only to the next
\* step of the sequence, from OfferVisual to Final, or to Opening by a
\* reset; so it decreases only by a reset.
C20_StepChange ==
    currentStep' # currentStep =>
        \/ currentStep' = currentStep + 1
        \/ currentStep = STEP_OFFER_VISUAL /\ currentStep' = STEP_FINAL
        \/ resets' # resets /\ currentStep' = STEP_OPENING

C20_Monotonic ==
    [](currentStep \in STEP_OPENING..STEP_FINAL) /\ [][C20_StepChange]_vars

\* the skip taken in the run after a reset
C20_Witness ==
    /\ currentStep = STEP_FINAL
    /\ wantsVisualConcept = "false"
    /\ resets = 1

\* ---- C21
\* the answer stored for step k
C21_Answer(k) == IF k = STEP_OPENING THEN openingResponse ELSE sectionValues[SECTIONS[k]]

\* C21: once feedback is recorded for a step, the answer stored for that
\* step stays as it is for as long as the feedback stays recorded.
C21_AnswerFrozen ==
    [][\A k \in STEP_OPENING..STEP_LAST_SECTION :
          (k \in DOMAIN feedbacks /\ k \in DOMAIN feedbacks') => C21_Answer(k)' = C21_Answer(k)]_vars

\* ------------------------------------------------- the routes' responses
Responded == call.response # Pending

\* a request to evaluate-section with a valid section and a string input
EvalValid ==
    /\ call.route = "evaluate-section"
    /\ prop(call.body, "section").type = "string"
    /\ prop(call.body, "section").value \in validSections
    /\ prop(call.body, "input").type = "string"

EvalSection == prop(call.body, "section").value

EvalInput == prop(call.body, "input").value

\* the response came from the placeholder heuristic
ByPlaceholder == EvalValid /\ Responded /\ call.response.body.source = "placeholder"

FeedbackFields == {"section", "feedback", "suggestedImprovements", "riskDelta", "flags", "source"}

\* C24: for a valid section and a string input, evaluate-section answers 200
\* with a SectionFeedback whatever the external service does; every failure of
\* the external path gives the placeholder result; the result names its
\* source, and openaiError is present exactly when the source is the
\* placeholder.
C24_NeverBlocks ==
    (EvalValid /\ Responded) =>
        LET r == call.response
        IN  /\ r.status = 200
            /\ FeedbackFields \subseteq DOMAIN r.body
            /\ r.body.section = EvalSection
            /\ r.body.source \in {"openai", "placeholder"}
            /\ ("openaiError" \in DOMAIN r.body) <=> (r.body.source = "placeholder")
            /\ upstream \in FailureModes =>
                   /\ r.body.source = "placeholder"
                   /\ r.body.riskDelta = evaluateWithPlaceholder(EvalSection, EvalInput).riskDelta
                   /\ r.body.flags = evaluateWithPlaceholder(EvalSection, EvalInput).flags
            /\ upstream \notin FailureModes => r.body.source = "openai"

C24_Witness ==
    /\ ByPlaceholder
    /\ upstream.kind = "hang"
    /\ call.response.status = 200
    /\ "openaiError" \in DOMAIN call.response.body

\* C25: the risk delta of every SectionFeedback that evaluate-section
\* returns lies in -10..25, on the LLM path and on the placeholder path.
C25_DeltaRange ==
    (EvalValid /\ Responded) =>
        /\ call.response.body.riskDelta >= -10
        /\ call.response.body.riskDelta <= 25

C25_Witness ==
    /\ EvalValid /\ Responded
    /\ upstream.kind = "reply"
    /\ prop(upstream.parsed, "riskDelta") = Num(-MaxReplyDelta)
    /\ call.response.body.source = "openai"
    /\ call.response.body.riskDelta = -10

\* what the four checks find in the trimmed answer
C26_Expected(text) ==
    [short |-> Len(text) < 10,
     ui |-> testAny({"dashboard", "page", "screen"}, text),
     noMetric |-> ~testAny({"metric", "percent", "time"}, text),
     noStake |-> ~testAny({"team", "stakeholder", "dependency"}, text)]

\* C26: on the placeholder path a section after Opening gets 5 for a trimmed
\* answer under 10 characters, 5 for a UI word, 3 for no measurable-outcome
\* word and 2 for no stakeholder word, capped at 20, each with its flag, no
\* flag twice; an Objectives answer of 10 to 49 characters with "dashboard"
\* and neither a metric nor a stakeholder word gets 10.
C26_SectionHeuristic ==
    (ByPlaceholder /\ EvalSection # "Opening") =>
        LET e == C26_Expected(strTrim(EvalInput))
            b == call.response.body
        IN  /\ b.riskDelta = Min(20, (IF e.short THEN 5 ELSE 0) + (IF e.ui THEN 5 ELSE 0)
                                       + (IF e.noMetric THEN 3 ELSE 0)
                                       + (IF e.noStake THEN 2 ELSE 0))
            /\ includes(b.flags, "Incomplete Answer") <=> e.short
            /\ includes(b.flags, "Solution Bias") <=> e.ui
            /\ includes(b.flags, "Missing Metrics") <=> e.noMetric
            /\ includes(b.flags, "Missing Stakeholders/Dependencies") <=> e.noStake
            /\ NoDuplicates(b.flags)
            /\ (/\ EvalSection = "Objectives and Outcomes"
                /\ Len(strTrim(EvalInput)) >= 10 /\ Len(strTrim(EvalInput)) < 50
                /\ strIncludes(toLowerCase(EvalInput), "dashboard")
                /\ e.noMetric /\ e.noStake) => b.riskDelta = 10

C26_Witness ==
    /\ ByPlaceholder
    /\ EvalSection = "Objectives and Outcomes"
    /\ EvalInput = "A new dashboard"
    /\ call.response.body.riskDelta = 10
    /\ call.response.body.flags
           = <<"Solution Bias", "Missing Metrics", "Missing Stakeholders/Dependencies">>

C27_Case ==
    ByPlaceholder /\ EvalSection = "Constraints and Considerations" /\ EvalInput = "tbd"

\* C27 as stated: placeholder evaluation of "Constraints and Considerations"
\* with input "tbd" yields riskDelta 5 and flags that include Incomplete
\* Answer.
C27_TbdFive ==
    C27_Case =>
        /\ call.response.body.riskDelta = 5
        /\ includes(call.response.body.flags, "Incomplete Answer")

\* C27 amended: placeholder evaluation of "Constraints and Considerations"
\* with input "tbd" yields riskDelta 10 (5 for the short answer, 3 for no
\* measurable outcome, 2 for no stakeholder) and the flags Incomplete Answer,
\* Missing Metrics and Missing Stakeholders/Dependencies.
C27_TbdTen ==
    C27_Case =>
        /\ call.response.body.riskDelta = 10
        /\ call.response.body.flags
               = <<"Incomplete Answer", "Missing Metrics", "Missing Stakeholders/Dependencies">>

C27_Witness == C27_Case /\ call.response.status = 200 /\ upstream.kind = "noKey"

OpeningKeywords == {"new", "existing", "current", "initiative", "product", "redesign", "part of"}

\* C28: on the placeholder path the Opening answer gets 5 and the flag
\* Incomplete Answer when it is empty or under 3 characters after trimming;
\* otherwise 0 and no flags when it holds an initiative-type keyword, and 3,
\* no flags and the clarifying message when it holds none; "Project Nova -
\* new initiative" (the dash standing for the em dash) gets 0 and no flags.
C28_OpeningHeuristic ==
    (ByPlaceholder /\ EvalSection = "Opening") =>
        LET text == strTrim(EvalInput)
            b == call.response.body
        IN  /\ Len(text) < 3 => b.riskDelta = 5 /\ b.flags = <<"Incomplete Answer">>
            /\ (Len(text) >= 3 /\ testAny(OpeningKeywords, text)) =>
                   b.riskDelta = 0 /\ b.flags = <<>>
            /\ (Len(text) >= 3 /\ ~testAny(OpeningKeywords, text)) =>
                   /\ b.riskDelta = 3 /\ b.flags = <<>>
                   /\ strIncludes(b.feedback, "Could you confirm")
            /\ EvalInput = "Project Nova - new initiative" =>
                   b.riskDelta = 0 /\ b.flags = <<>>

C28_Witness ==
    /\ ByPlaceholder
    /\ EvalSection = "Opening"
    /\ EvalInput = "Project Nova - new initiative"
    /\ call.response.body.riskDelta = 0
    /\ call.response.body.flags = <<>>

\* the caller's input is malformed in the way the route validates
Malformed ==
    \/ call.route = "evaluate-section" /\ ~EvalValid
    \/ /\ call.route = "generate-follow-up-questions"
       /\ \A n \in {"opening", "objectives"} :
              \/ prop(call.body, n).type \in {"null", "undefined"}
              \/ strTrim(String(prop(call.body, n))) = ""
    \/ call.route = "generate-visual-concept" /\ prop(call.body, "problem").type # "string"

\* C29: a request whose section is missing or invalid or whose input is not a
\* string (evaluate-section), whose opening and objectives are both empty
\* after trimming (generate-follow-up-questions), or whose problem is not a
\* string (generate-visual-concept) is answered with a 4xx status, the
\* external service not having been called.
C29_Rejected ==
    (Responded /\ Malformed) =>
        /\ call.response.status >= 400 /\ call.response.status <= 499
        /\ ~call.response.called

\* every field the body gives is a string
TypedBody == call.body.type = "object" /\ \A n \in DOMAIN call.body.fields : call.body.fields[n].type = "string"

SummaryFields == {"problem", "desiredOutcome", "usersImpacted", "businessValue", "constraints"}

ConceptFields ==
    {"experienceGoal", "suggestedLayout", "keyElements", "interactionModel", "designConsiderations"}

FiveStrings(body, names) == DOMAIN body = names /\ \A n \in names : body[n].type = "string"

\* C30: generate-summary answers every request of four strings, and
\* generate-visual-concept every summary whose problem is a string, with
\* status 200 and the five string fields, whatever the external service does;
\* when the service fails the body is the placeholder and the header
\* X-OpenAI-Error carries the error.
C30_Always200 ==
    /\ (Responded /\ TypedBody /\ call.route = "generate-summary") =>
           /\ call.response.status = 200
           /\ FiveStrings(call.response.body, SummaryFields)
           /\ upstream \in FailureModes => "X-OpenAI-Error" \in DOMAIN call.response.headers
    /\ (Responded /\ TypedBody /\ call.route = "generate-visual-concept"
          /\ prop(call.body, "problem").type = "string") =>
           /\ call.response.status = 200
           /\ FiveStrings(call.response.body, ConceptFields)
           /\ upstream \in FailureModes =>
                  /\ "X-OpenAI-Error" \in DOMAIN call.response.headers
                  /\ call.response.body = placeholderConcept(call.body)

\* C22: whatever way the external services fail, a user who leaves no answer
\* empty and keeps taking the forward action of the screen reaches Final.
C22_ReachesFinal == <>(currentStep = STEP_FINAL)

\* C23: every call the wizard has issued can complete whatever the external
\* service does, its timer ending it when the service does not answer.
C23_Bounded ==
    /\ evalReq # <<>> => ENABLED evalServed
    /\ summaryReq # <<>> => ENABLED summaryServed
    /\ followUpReq # <<>> => ENABLED followUpServed
    /\ conceptReq # <<>> => ENABLED conceptServed
    /\ mockupReq # <<>> => ENABLED mockupServed


\* ---- C34
\* the answer of step k after trimming
C34_Trimmed(k) == trim(IF k = STEP_OPENING THEN openingResponse ELSE sectionValues[SECTIONS[k]])

\* Next is pressed on a step without feedback whose answer is empty after trimming
C34_EmptyNext ==
    /\ currentStep \in STEP_OPENING..STEP_LAST_SECTION
    /\ currentStep \notin DOMAIN feedbacks
    /\ C34_Trimmed(currentStep) = <<>>
    /\ handleNext

\* C34: Next on Opening or a section step without feedback and with input
\* that is empty after trimming issues no evaluation request, sets the
\* validation message and leaves step, feedbacks, cumulative risk and flags
\* as they are; every evaluation request that is issued carries non-empty
\* trimmed input.
C34_Step ==
    /\ C34_EmptyNext =>
          /\ evalReq' = evalReq
          /\ ~loading'
          /\ error' = (IF currentStep = STEP_OPENING THEN MSG_OPENING_REQUIRED
                       ELSE MSG_SECTION_REQUIRED)
          /\ UNCHANGED <<currentStep, feedbacks, cumulativeRisk, allFlags>>
    /\ Len(evalReq') > Len(evalReq) =>
          /\ evalReq'[Len(evalReq')].input # <<>>
          /\ trim(evalReq'[Len(evalReq')].input) = evalReq'[Len(evalReq')].input
          /\ evalReq'[Len(evalReq')].input = C34_Trimmed(currentStep)

C34_EmptyInput == [][C34_Step]_vars

\* the validation message is shown for a white-space answer, nothing was sent
C34_Witness ==
    /\ currentStep = STEP_OPENING
    /\ openingResponse = <<" ">>
    /\ error = MSG_OPENING_REQUIRED
    /\ DOMAIN feedbacks = {}
    /\ evalReq = <<>>
    /\ ~loading
    /\ resets = 0


\* ---- C38
\* the concept trigger wants to generate
C38_ShouldGenerate ==
    \/ currentStep = STEP_VISUAL_CONCEPT /\ wantsVisualConcept = "true"
    \/ currentStep = STEP_FINAL /\ wantsVisualConcept = "false"

C38_Present ==
    /\ currentStep \in {STEP_OFFER_VISUAL, STEP_VISUAL_CONCEPT, STEP_FINAL}
          => designRequestSummary # NULL
    /\ C38_ShouldGenerate => designRequestSummary # NULL

C38_Built ==
    (Len(conceptReq') > Len(conceptReq) \/ Len(mockupReq') > Len(mockupReq))
        => designRequestSummary' # NULL

\* C38: on OfferVisual, VisualConcept and Final a summary is present, so the
\* concept trigger is never held back by a missing summary, and every
\* concept or mockup request is issued with a summary at hand.
C38_SummaryPresent == [](C38_Present) /\ [][C38_Built]_vars

\* the second run reached Final without the visual step, its concept request is out
C38_Witness ==
    /\ currentStep = STEP_FINAL
    /\ wantsVisualConcept = "false"
    /\ designRequestSummary # NULL
    /\ \E i \in 1..Len(conceptReq) : ~conceptReq[i].stale
    /\ resets = 1


\* ---- C39
\* C39: each in-flight flag is true exactly while a request of its kind is
\* outstanding, also after a reset with a request on the wire.
C39_Flags ==
    /\ loading <=> evalReq # <<>>
    /\ summaryLoading <=> summaryReq # <<>>
    /\ followUpLoading <=> followUpReq # <<>>
    /\ conceptLoading <=> conceptReq # <<>>
    /\ mockupLoading <=> mockupReq # <<>>

\* the wizard was reset with a follow-up and a summary request on the wire
C39_Witness ==
    /\ resets = 1
    /\ currentStep = STEP_OPENING
    /\ followUpLoading
    /\ \E i \in 1..Len(followUpReq) : followUpReq[i].stale
    /\ summaryLoading
    /\ \E i \in 1..Len(summaryReq) : summaryReq[i].stale


\* ---- C36
\* C36: whenever the wizard is past step k (k = Opening, Objectives and
\* Outcomes, Constraints and Considerations) the answer stored for step k is
\* non-empty after trimming.
C36_AnswersKept ==
    \A k \in STEP_OPENING..STEP_LAST_SECTION : currentStep > k => C34_Trimmed(k) # <<>>

\* ---- C37
\* the fold of clamp(score + delta, 0, 100) over the recorded feedbacks, in
\* the order given by steps
RECURSIVE C37_Fold(_, _)
C37_Fold(score, steps) ==
    IF steps = <<>> THEN score
    ELSE C37_Fold(Clamp(score + feedbacks[Head(steps)].riskDelta, 0, 100), Tail(steps))

\* the orders in which the recorded feedbacks can have been recorded
C37_Orders ==
    {o \in [1..Cardinality(DOMAIN feedbacks) -> DOMAIN feedbacks] :
        \A i, j \in DOMAIN o : o[i] = o[j] => i = j}

\* C37: the cumulative risk is the fold of clamp(score + delta, 0, 100) from
\* 0 over the deltas of the recorded feedbacks, and the accumulated flags
\* are the union of their flags.
C37_Inv ==
    /\ \E o \in C37_Orders : cumulativeRisk = C37_Fold(0, o)
    /\ Range(allFlags) = UNION {Range(feedbacks[k].flags) : k \in DOMAIN feedbacks}

\* one step of the fold: a feedback that is recorded applies its delta once to
\* the score before it; nothing else moves the score or the flags but a reset
C37_Step ==
    /\ Cardinality(Recorded) <= 1
    /\ \A k \in DOMAIN feedbacks \cap DOMAIN feedbacks' : feedbacks'[k] = feedbacks[k]
    /\ \A k \in Recorded :
          /\ cumulativeRisk' = Clamp(cumulativeRisk + feedbacks'[k].riskDelta, 0, 100)
          /\ Range(allFlags') = Range(allFlags) \cup Range(feedbacks'[k].flags)
    /\ (Recorded = {} /\ resets' = resets) => UNCHANGED <<cumulativeRisk, allFlags, feedbacks>>
    /\ resets' # resets => cumulativeRisk' = 0 /\ allFlags' = <<>> /\ DOMAIN feedbacks' = {}

C37_RiskIsFold == [](C37_Inv) /\ [][C37_Step]_vars

\* the feedback of step 1 was recorded before that of step 0 (its request was
\* on the wire at the reset): 25 then -10 gives 15, the other order 25
C37_Witness ==
    /\ resets = 1
    /\ DOMAIN feedbacks = {0, 1}
    /\ feedbacks[1].riskDelta = 25
    /\ feedbacks[0].riskDelta = -10
    /\ cumulativeRisk = 15


\* ---- C35
\* C35: after a summary, reference-concept or follow-up request fails no
\* request of that kind is issued without a further action of the user: no
\* request on the wire was issued by the trigger running again on the
\* completion of the one before it.
C35_NoRetry ==
    /\ \A i \in 1..Len(summaryReq) : ~summaryReq[i].retry
    /\ \A i \in 1..Len(followUpReq) : ~followUpReq[i].retry
    /\ \A i \in 1..Len(conceptReq) : ~conceptReq[i].retry


\* ---- C31
\* a parsed reply the follow-up generator can use: a non-blank intro or a
\* non-blank question
C31_Usable(p) ==
    /\ p.type = "object"
    /\ \/ prop(p, "intro").type = "string" /\ strTrim(prop(p, "intro").value) # ""
       \/ /\ prop(p, "questions").type = "array"
          /\ \E q \in Range(prop(p, "questions").items) :
                q.type = "string" /\ strTrim(q.value) # ""

\* the upstream call fails: no credential, no response, a rejected fetch, a
\* non-success status, a body or content that does not parse, an empty or
\* unusable reply
C31_Failing(up) == up.kind # "reply" \/ ~C31_Usable(up.parsed)

\* the route's half: a request that passed the validation is answered 502
\* with an error and nothing else whenever the upstream call fails
C31_Route ==
    (call.route = "generate-follow-up-questions" /\ Responded /\ call.response.called
        /\ C31_Failing(upstream))
        => call.response.status = 502 /\ DOMAIN call.response.body = {"error"}

C31_RouteWitness ==
    /\ call.route = "generate-follow-up-questions"
    /\ upstream.kind = "noKey"
    /\ call.response.status = 502

\* the route's half for the request the wizard sends
C31_Served ==
    (followUpReq # <<>> /\ C31_Failing(upstream))
        => LET r == servedFollowUp[upstream, openingResponse, sectionValues[SECTIONS[1]]]
           IN  r.status = 502 /\ DOMAIN r.body = {"error"}

\* the Constraints screen shows the default prompts with the notice
C31_DefaultPrompts ==
    /\ currentStep = STEP_LAST_SECTION
    /\ ~followUpLoading
    /\ followUpForConstraints = NULL
    /\ followUpError = MSG_FOLLOWUP

\* the user can still answer and have the answer evaluated
C31_CanAnswer ==
    /\ loading' = loading
    /\ UNCHANGED <<currentStep, sectionValues, feedbacks, error>>
    /\ (~loading /\ STEP_LAST_SECTION \notin DOMAIN feedbacks
           /\ C34_Trimmed(STEP_LAST_SECTION) # <<>>) => CanSubmit'

C31_Step ==
    \A i \in 1..Len(followUpReq) :
        (currentStep = STEP_LAST_SECTION /\ followUpReq' # followUpReq /\ followUpFailure(i))
            => C31_DefaultPrompts' /\ C31_CanAnswer

C31_StepAnswer ==
    \A i \in 1..Len(followUpReq) :
        (currentStep = STEP_LAST_SECTION /\ followUpReq' # followUpReq /\ followUpFailure(i))
            => C31_CanAnswer

\* C31: whenever the upstream call fails generate-follow-up-questions
\* answers with an error and no placeholder, and the wizard then shows the
\* default prompts on the Constraints screen and lets the user answer and
\* evaluate the section.
C31_NoFallback == [](C31_Served) /\ [][C31_Step]_vars

\* what holds of it: the error response, and the section can still be answered
C31_Rest == [](C31_Served) /\ [][C31_StepAnswer]_vars


\* ---- C32
\* the error text a response carries: openaiError of a feedback, the header
\* X-OpenAI-Error of a placeholder summary or concept, error of an error body
C32_ErrorText ==
    IF "openaiError" \in DOMAIN call.response.body THEN call.response.body.openaiError
    ELSE IF "X-OpenAI-Error" \in DOMAIN call.response.headers
    THEN call.response.headers["X-OpenAI-Error"]
    ELSE IF "error" \in DOMAIN call.response.body THEN call.response.body.error
    ELSE ""

\* a request that passed the route's validation was handled with no
\* credential configured
C32_Case == Responded /\ call.response.called /\ upstream.kind = "noKey"

C32_Outcome ==
    /\ call.sent.service = NULL
    /\ strIncludes(C32_ErrorText, "OPENAI_API_KEY is not set")
    /\ call.response.status = 200 \/ DOMAIN call.response.body = {"error"}

\* C32: with no access credential configured each of the five routes that
\* call the external service fails its external path with a
\* credential-missing error, issues no external request, and answers with
\* its fallback or an error result.
C32_NoCredential == C32_Case => C32_Outcome

\* what holds of it: the four routes that call the chat service
C32_ChatRoutes == (C32_Case /\ call.route # "generate-mockup") => C32_Outcome

C32_ChatWitness ==
    /\ C32_Case
    /\ call.route = "generate-visual-concept"
    /\ call.response.status = 200


\* ---- C33
\* the mockup route sent a request to the image service
C33_Sent == call.route = "generate-mockup" /\ call.sent.service # NULL

\* C33: the intent summary placed in the prompt has at most 500 characters,
\* the objectives text at most 200, and the prompt sent to the image service
\* at most 1000, for inputs of any length.
C33_Budgets ==
    C33_Sent =>
        /\ Len(call.sent.truncatedIntent) <= 500
        /\ Len(call.sent.truncatedObjectives) <= 200
        /\ Len(call.sent.finalPrompt) <= 1000

\* what holds of it: the first 500 and 200 characters of the inputs are kept
\* and one character is appended to a text that was cut; the prompt is
\* within 1000 characters
C33_Kept ==
    C33_Sent =>
        /\ Len(call.sent.truncatedIntent) <= 501
        /\ Len(call.sent.truncatedObjectives) <= 201
        /\ Len(call.sent.finalPrompt) <= 1000
        /\ prop(call.body, "intentSummary").type = "string" =>
              LET given == prop(call.body, "intentSummary").value
              IN  IF Len(given) <= 500 THEN call.sent.truncatedIntent = given
                  ELSE /\ Len(call.sent.truncatedIntent) = 501
                       /\ SubSeq(call.sent.truncatedIntent, 1, 500) = SubSeq(given, 1, 500)

\* both inputs were cut and so was the prompt
C33_KeptWitness ==
    /\ C33_Sent
    /\ Len(call.sent.truncatedIntent) = 501
    /\ Len(call.sent.truncatedObjectives) = 201
    /\ Len(call.sent.finalPrompt) = 998

====
